---- MODULE Spec2Model ----
(***************************************************************************)
(* A model of the ptvtracker-data ingestion service.                        *)
(*                                                                         *)
(* Static pipeline: GTFSScheduler.checkAndUpdate driving the VersionChecker *)
(* (CreateNewVersion / ActivateVersion, each a READ COMMITTED transaction   *)
(* on gtfs.versions with the partial unique index unique_active_version),   *)
(* the per-source Importer transactions, and the version cleanup of the     *)
(* maintenance package.                                                     *)
(*                                                                         *)
(* Realtime pipeline: Processor.processFeedMessage (one transaction per     *)
(* feed message, version id cached in versionMapping), the processor's     *)
(* 15-minute cleanup job and the maintenance truncate of the realtime       *)
(* tables.  Consumer: the token channel of fetchFeed and its refill.        *)
(***************************************************************************)
EXTENDS Integers, Sequences, FiniteSets, TLC

\* ------------------------------------------------------------------ bounds

\* Number of CreateNewVersion calls (hence version rows) in a run.
MaxVersions == 2
\* The catalog's last_modified is drawn from 1..MaxModified.
MaxModified == 2

\* Number of feed messages the processor inserts in a run.
MaxMessages == 1
\* The clock runs over 0..MaxTime.
MaxTime == 2

\* DefaultSchedulerConfig: KeepInactiveVersions.
KeepInactiveVersions == 1

\* The scheduler instances sharing one store ("The system will automatically
\* handle multiple sources concurrently").
Schedulers == {"s1", "s2"}

\* The inner archives "<n>/google_transit.zip" of a downloaded archive, as the
\* sequence of their source ids: a flat archive, and one without recognized
\* files, has none.
Archives == {<<>>, <<1, 2>>}
SingleSource == {<<1>>}

NoVersion == 0

\* The consumer's configuration (GTFSRealtimeConfig), in ticks of 15 seconds
\* where it is a duration.
RateLimitPerMin == 2
PollingInterval == 3
CacheExpiration == 4
\* rateLimiter.interval = time.Minute, in ticks of 15 seconds.
RefillInterval == 4
Endpoints == {"e1", "e2"}
NoEntry == -1
\* cap(feedChan): make(chan *FeedResult, 1000), scaled down.
FeedChanCap == 1
\* The feed messages the server serves are 1..MaxFeed; NoMessage is a nil
\* FeedResult.Message.
MaxFeed == 1
NoMessage == 0

\* Number of calls of GTFSScheduler.Start that start a loop.
MaxStarts == 2

\* A schedule file has 0..MaxRows rows.
MaxRows == 2
MaxEntities == 2
MaxTripFeeds == 2
MaxStopKeys == 1
MaxConsumerStarts == 2

\* Importer.batchSize (1000 in NewImporter), scaled down.
batchSize == 2

\* getOrCreateVersion sends at most MaxQueries SELECTs of the active version.
MaxQueries == 2

\* A response body has 1..MaxChunks chunks of the copy buffer.
MaxChunks == 4

\* The hours field of a time string runs over 0..MaxHours.
MaxHours == 25

\* One tick of the clock is 15 minutes: the INTERVAL '15 minutes' of
\* Processor.performCleanup is one tick.
RetentionWindow == 1

VARIABLES
  \* ---- the store: gtfs.versions and the versioned entity tables
  vrows,          \* version_id of the committed rows of gtfs.versions
  isActive,       \* version_id of the committed rows with is_active = true
  updatedAt,      \* version_id -> updated_at
  createdAt,      \* version_id -> created_at, as the rank of the row's insert
  nextId,         \* the SERIAL sequence of version_id
  entities,       \* committed entity rows, as <<version_id, source_id>>
  \* ---- GTFSScheduler.checkAndUpdate, per scheduler
  pc,             \* position in checkAndUpdate
  lm,             \* metadata.LastModified
  archive,        \* inner archives still to import
  zip,            \* the downloaded archive: whether schedule CSV files are at
                  \* its root, and its inner archives
  vid,            \* versionID returned by CreateNewVersion
  activeAtDetect, \* the active version HasNewerVersion read
  outcome,        \* what the last checkAndUpdate returned
  \* ---- the scheduler's open transaction
  txSnap,         \* rows matched by the running UPDATE ... WHERE is_active
  txOff,          \* rows this tx set is_active = false (uncommitted)
  txOn,           \* row this tx set is_active = true (uncommitted)
  txNew,          \* row this tx inserted (uncommitted)
  txRows,         \* entity rows this tx inserted (uncommitted)
  \* ---- CleanupScheduler
  isImportInProgress,
  importLock,     \* whether importLock is held for writing
  gcPc,           \* position in performStaticCleanup
  gcTargets,      \* versions selected for deletion
  \* ---- the realtime store (schema gtfs_rt) and the clock
  now,            \* the clock
  feedMessages,   \* committed rows of feed_messages
  rtRows,         \* committed rows of the entity and child tables: <<table, id>>
  nextFm,         \* the sequence of feed_message_id
  \* ---- Processor.processFeedMessage
  versionMapping, \* Processor.versionMapping["active_version"], or NoVersion
  rtPc,           \* position in processFeedMessage
  rtType,         \* result.Endpoint.FeedType
  rtVersion,      \* versionID
  rtCached,       \* whether versionID came from versionMapping
  rtTxMsg,        \* the header row the open tx inserted (uncommitted)
  rtTxRows,       \* the entity and child rows the open tx inserted
  failedIds,      \* feed_message_id of the messages whose processing failed
  rtResult,       \* the FeedResult processFeedMessage is running on
  rtLast,         \* how the drainer's last result ended
  \* ---- realtime retention
  rcPc,           \* "idle", "delete" (performCleanup) or "truncate"
  rcIdx,          \* index of the table CleanupOldRealtimeDataBatched is at
  rcDays,         \* retentionDays of the running or last truncate run
  rcOutcome,      \* how the last retention run ended
  \* ---- the realtime Consumer
  tokens,         \* len(rateLimiter.tokens)
  refillIn,       \* ticks until the ticker of refreshRateLimiter fires
  pollIn,         \* endpoint -> ticks until its pollEndpoint calls fetchFeed
  waiting,        \* endpoints whose fetchFeed waits for a token
  cacheAge,       \* endpoint -> age of its cache entry, NoEntry without one
  recentRequests, \* HTTP requests sent in each of the last RefillInterval ticks
  capTokens,      \* cap(rateLimiter.tokens): config.RateLimitPerMin
  pollEvery,      \* config.PollingInterval, in ticks
  cacheMsg,       \* endpoint -> feedMessage of its cache entry
  lastOk,         \* endpoint -> message of its last decoded HTTP 200
  lastResult,     \* the FeedResult of the fetchFeed that returned last, if
                  \* one did since the clock advanced
  chanLen,        \* len(feedChan)
  stopped,        \* stopChan is closed or ctx is done
  sinceResult,    \* endpoint -> ticks since its last FeedResult that did
                  \* not fail on the rate limit
  \* ---- the conversion of HH:MM:SS strings
  tmIn,           \* the fields <<hours, minutes, seconds>> of the string
  tmRt,           \* start_time as the realtime insert path stores it
  tmStatic,       \* arrival_time as the static import path stores it
  \* ---- GTFSScheduler.Start and Stop
  running,        \* GTFSScheduler.running
  cancelOf,       \* the loop s.cancel cancels, 0 before the first Start
  lpPc,           \* loop -> where the goroutine that runs Start is
  lpCtx,          \* loop -> whether its ctx is cancelled
  lpTick,         \* loop -> whether its ticker.C holds a tick
  lpErr,          \* loop -> whether its last CHECK returned an error
  \* ---- HTTPDownloader.Download
  dlPc,           \* where Download is
  tempFile,       \* chunks written to the temp file, NoFile if there is none
  destFile,       \* chunks of the file at destPath, NoFile if there is none
  bodyLen,        \* chunks of the response body
  statusCode,     \* resp.StatusCode, 0 before the response
  dlErr,          \* whether the last Download returned an error
  \* ---- main
  ctxDone,        \* whether main has cancelled the context of the services
  \* ---- Processor.getOrCreateVersion
  rtQueries,      \* number of SELECTs of the active version it has sent
  \* ---- Importer.Import and its batchInserters
  biPc,           \* where Import is: "parse", "flush", "done" or "failed"
  biFile,         \* index in parseOrder (parsing) or in batches (final flush)
  biLeft,         \* rows of the file being parsed that are still to come
  valueCount,     \* table -> batchInserter.valueCount
  biStored,       \* table -> rows inserted in the transaction
  biQuery,        \* the last INSERT that Flush has executed
  \* ---- Maintenance.CleanupOldGTFSVersions, statement by statement
  dvTodo,         \* versionsToDelete the loop has not reached yet
  dvCur,          \* the version deleteGTFSVersion is deleting, NoVersion if none
  dvStep,         \* index in deleteTables of its next DELETE
  dvRows,         \* version -> the entity tables that hold rows of it
  dvVersions,     \* the rows of gtfs.versions
  dvResults,      \* version -> CleanupStatus of its result
  \* ---- the long-running goroutines and main's shutdown
  taskPc,         \* task -> "select", "work" or "stopped"
  tkQueue,        \* results queued in feedChan
  dbClosed,       \* whether main's deferred database.Close() has run
  \* ---- Processor.processTripUpdatesBulk
  tuPc,           \* position in processTripUpdatesBulk
  feedMessageID,  \* feed_message_id of the message being processed
  feedEntities,   \* result.Message.Entity
  trip_updates,   \* rows of gtfs_rt.trip_updates
  stop_time_updates, \* rows of gtfs_rt.stop_time_updates
  tripUpdateMapping, \* entity_id -> trip_update_id
  nextTripUpdateId,  \* the SERIAL sequence of trip_update_id
  \* ---- Consumer.Start and Consumer.Stop
  isRunning,      \* Consumer.isRunning
  stopChanCloses, \* how often close(c.stopChan) has been called
  csStarts,       \* how many calls of Start were accepted
  csCtx,          \* whether the ctx of a Start is done
  pollPc          \* position of the pollEndpoint goroutines of a Start

storeVars == <<vrows, isActive, updatedAt, createdAt, nextId, entities>>
schedVars == <<pc, lm, archive, zip, vid, activeAtDetect, outcome>>
txVars    == <<txSnap, txOff, txOn, txNew, txRows>>
gcVars    == <<isImportInProgress, importLock, gcPc, gcTargets>>
rtStoreVars == <<now, feedMessages, rtRows, nextFm>>
procVars  == <<versionMapping, rtPc, rtType, rtVersion, rtCached, rtTxMsg, rtTxRows,
               failedIds, rtResult, rtLast>>
rcVars    == <<rcPc, rcIdx, rcDays, rcOutcome>>
realtimeVars == <<rtStoreVars, procVars, rcVars>>
consumerVars == <<tokens, refillIn, pollIn, waiting, cacheAge, recentRequests,
                  capTokens, pollEvery, cacheMsg, lastOk, lastResult, chanLen,
                  stopped, sinceResult>>
timeVars  == <<tmIn, tmRt, tmStatic>>
loopVars  == <<running, cancelOf, lpPc, lpCtx, lpTick, lpErr>>
downloadVars == <<dlPc, tempFile, destFile, bodyLen, statusCode, dlErr>>
mainVars  == <<ctxDone>>
lookupVars == <<rtQueries>>
batchVars == <<biPc, biFile, biLeft, valueCount, biStored, biQuery>>
deleteVars == <<dvTodo, dvCur, dvStep, dvRows, dvVersions, dvResults>>
taskVars == <<taskPc, tkQueue, dbClosed>>
tripVars == <<tuPc, feedMessageID, feedEntities, trip_updates, stop_time_updates,
              tripUpdateMapping, nextTripUpdateId>>
startVars == <<isRunning, stopChanCloses, csStarts, csCtx, pollPc>>
laterVars == <<batchVars, deleteVars, taskVars, tripVars, startVars>>
otherVars == <<timeVars, loopVars, downloadVars, mainVars, lookupVars, laterVars>>
vars      == <<storeVars, schedVars, txVars, gcVars, realtimeVars, consumerVars,
               otherVars>>

VersionIds == 1..MaxVersions

\* ------------------------------------------------------------------ Init

InitStore ==
  /\ vrows = {}
  /\ isActive = {}
  /\ updatedAt = [v \in VersionIds |-> 0]
  /\ createdAt = [v \in VersionIds |-> 0]
  /\ nextId = 1
  /\ entities = {}

\* No archive has been downloaded.
NoZip == [root |-> FALSE, inner |-> <<>>]

InitSched ==
  /\ pc = [p \in Schedulers |-> "idle"]
  /\ lm = [p \in Schedulers |-> 0]
  /\ archive = [p \in Schedulers |-> <<>>]
  /\ zip = [p \in Schedulers |-> NoZip]
  /\ vid = [p \in Schedulers |-> NoVersion]
  /\ activeAtDetect = [p \in Schedulers |-> {}]
  /\ outcome = [p \in Schedulers |-> "none"]

InitTx ==
  /\ txSnap = [p \in Schedulers |-> {}]
  /\ txOff = [p \in Schedulers |-> {}]
  /\ txOn = [p \in Schedulers |-> NoVersion]
  /\ txNew = [p \in Schedulers |-> NoVersion]
  /\ txRows = [p \in Schedulers |-> {}]

InitGc ==
  /\ isImportInProgress = FALSE
  /\ importLock = FALSE
  /\ gcPc = "idle"
  /\ gcTargets = {}

InitRealtime ==
  /\ now = 0
  /\ feedMessages = {}
  /\ rtRows = {}
  /\ nextFm = 1
  /\ versionMapping = NoVersion
  /\ rtPc = "idle"
  /\ rtType = "none"
  /\ rtVersion = NoVersion
  /\ rtCached = FALSE
  /\ rtTxMsg = {}
  /\ rtTxRows = {}
  /\ failedIds = {}
  /\ rtResult = "none"
  /\ rtLast = "none"
  /\ rcPc = "idle"
  /\ rcIdx = 0
  /\ rcDays = 0
  /\ rcOutcome = "none"

\* No fetchFeed has returned since the clock last advanced.
NoResult == [endpoint |-> "none", how |-> "none", msg |-> NoMessage,
             err |-> FALSE, sent |-> FALSE]

\* NewConsumer and Consumer.Start with rate limit r and polling interval i:
\* the limiter is full, its ticker and the pollers start, and every poller
\* fetches at once.
StartConsumer(r, i) ==
  /\ capTokens = r
  /\ pollEvery = i
  /\ tokens = r
  /\ refillIn = RefillInterval
  /\ pollIn = [e \in Endpoints |-> 0]
  /\ waiting = {}
  /\ cacheAge = [e \in Endpoints |-> NoEntry]
  /\ recentRequests = [k \in 1..RefillInterval |-> 0]
  /\ cacheMsg = [e \in Endpoints |-> NoMessage]
  /\ lastOk = [e \in Endpoints |-> NoMessage]
  /\ lastResult = NoResult
  /\ chanLen = 0
  /\ stopped = FALSE
  /\ sinceResult = [e \in Endpoints |-> 0]

InitConsumer == StartConsumer(RateLimitPerMin, PollingInterval)

\* A column that is NULL, and a conversion that has not run.
NullTime == -1
NotParsed == -2

\* No time string has been converted.
InitTime ==
  /\ tmIn = <<0, 0, 0>>
  /\ tmRt = NotParsed
  /\ tmStatic = NotParsed

\* NewScheduler: not running, and no goroutine is in Start.
Loops == 1..MaxStarts

InitLoop ==
  /\ running = FALSE
  /\ cancelOf = 0
  /\ lpPc = [g \in Loops |-> "none"]
  /\ lpCtx = [g \in Loops |-> FALSE]
  /\ lpTick = [g \in Loops |-> FALSE]
  /\ lpErr = [g \in Loops |-> FALSE]

\* No file, as os.Stat reports it.
NoFile == -1

\* Before the first Download: nothing at destPath, no temp file.
InitDownload ==
  /\ dlPc = "idle"
  /\ tempFile = NoFile
  /\ destFile = NoFile
  /\ bodyLen = 0
  /\ statusCode = 0
  /\ dlErr = FALSE

\* main: ctx, cancel := context.WithCancel(context.Background()).
InitMain == ctxDone = FALSE

\* NewProcessor: no query has been sent.
InitLookup == rtQueries = 0

\* Parser.parseStandardGTFS: the files in the order they are parsed.
parseOrder == <<"agency", "levels", "stops", "routes", "calendar",
                "calendar_dates", "shapes", "trips", "stop_times", "pathways",
                "transfers">>

Tables == {parseOrder[i] : i \in 1..Len(parseOrder)}

\* Importer.Import: the batch inserters in the order of the final flush.
batches == <<"agency", "levels", "stops", "routes", "calendar",
             "calendar_dates", "shapes", "trips", "stop_times", "pathways",
             "transfers">>

NoQuery == [table |-> "none", rows |-> 0, perRow |-> 0, args |-> 0, columns |-> 0]

\* Importer.Import after BeginTx: empty batch inserters, ParseZip is next.
InitBatch ==
  /\ biPc = "parse"
  /\ biFile = 0
  /\ biLeft = 0
  /\ valueCount = [t \in Tables |-> 0]
  /\ biStored = [t \in Tables |-> 0]
  /\ biQuery = NoQuery

\* deleteGTFSVersion: the entity tables in the order of their DELETEs.
tablesTripsFirst == <<"trips", "stop_times", "shapes", "calendar_dates",
                      "calendar", "transfers", "pathways", "levels", "stops",
                      "routes", "agency">>

deleteTables == <<"stop_times", "trips", "shapes", "calendar_dates", "calendar",
                  "transfers", "pathways", "levels", "stops", "routes", "agency">>

\* CleanupOldGTFSVersions after its query: every version of VersionIds is
\* inactive, has rows in every entity table and is selected, newest first
\* (ORDER BY created_at DESC).
InitDelete ==
  /\ dvTodo = [i \in 1..MaxVersions |-> MaxVersions + 1 - i]
  /\ dvCur = NoVersion
  /\ dvStep = 0
  /\ dvRows = [v \in VersionIds |-> Tables]
  /\ dvVersions = VersionIds
  /\ dvResults = [v \in VersionIds |-> "none"]

\* The goroutines main starts: the loop of GTFSScheduler.Start, and through
\* Manager.Start one pollEndpoint per endpoint, refreshRateLimiter,
\* processFeedResults and runCleanupJob.
Tasks == Endpoints \cup {"check_loop", "refill", "drainer", "cleanup"}

\* The loops that call their work once before their first select.
InitialWork == Endpoints \cup {"check_loop", "cleanup"}

InitTasks ==
  /\ taskPc = [t \in Tasks |-> IF t \in InitialWork THEN "work" ELSE "select"]
  /\ tkQueue = 0
  /\ dbClosed = FALSE

InitTrips ==
  /\ tuPc = "idle"
  /\ feedMessageID = 0
  /\ feedEntities = <<>>
  /\ trip_updates = {}
  /\ stop_time_updates = {}
  /\ tripUpdateMapping = <<>>
  /\ nextTripUpdateId = 1

\* NewConsumer: not running, stopChan made and open.
Starts == 1..MaxConsumerStarts

InitStart ==
  /\ isRunning = FALSE
  /\ stopChanCloses = 0
  /\ csStarts = 0
  /\ csCtx = [g \in Starts |-> FALSE]
  /\ pollPc = [g \in Starts |-> [e \in Endpoints |-> "none"]]

InitLater == InitBatch /\ InitDelete /\ InitTasks /\ InitTrips /\ InitStart

InitOther == InitTime /\ InitLoop /\ InitDownload /\ InitMain /\ InitLookup /\ InitLater

Init ==
  /\ InitStore /\ InitSched /\ InitTx /\ InitGc /\ InitRealtime /\ InitConsumer
  /\ InitOther

\* ------------------------------------------------- transactions (helpers)

\* Rows of gtfs.versions locked by scheduler q's open transaction.
LockedBy(q) == txOff[q] \cup (IF txOn[q] = NoVersion THEN {} ELSE {txOn[q]})

LockedByOther(p, r) == \E q \in Schedulers \ {p} : r \in LockedBy(q)

\* tx.Rollback(), and the end of a transaction: no uncommitted write is left.
Rollback(p) ==
  /\ txSnap' = [txSnap EXCEPT ![p] = {}]
  /\ txOff' = [txOff EXCEPT ![p] = {}]
  /\ txOn' = [txOn EXCEPT ![p] = NoVersion]
  /\ txNew' = [txNew EXCEPT ![p] = NoVersion]
  /\ txRows' = [txRows EXCEPT ![p] = {}]

\* checkAndUpdate returns (its locals go out of scope) with result r.
Return(p, r) ==
  /\ pc' = [pc EXCEPT ![p] = "idle"]
  /\ outcome' = [outcome EXCEPT ![p] = r]
  /\ lm' = [lm EXCEPT ![p] = 0]
  /\ archive' = [archive EXCEPT ![p] = <<>>]
  /\ zip' = [zip EXCEPT ![p] = NoZip]
  /\ vid' = [vid EXCEPT ![p] = NoVersion]
  /\ activeAtDetect' = [activeAtDetect EXCEPT ![p] = {}]

\* checkAndUpdate returns an error of kind e (the deferred Rollback runs).
ReturnErr(p, e) == Return(p, e) /\ Rollback(p)

\* CREATE UNIQUE INDEX unique_active_version ON versions (is_active)
\* WHERE is_active = TRUE: setting row x active in p's transaction conflicts
\* with any other row that is active and that p has not deactivated itself.
NoUniqueIndex(p, x) == FALSE

UniqueActiveViolated(p, x) == ((isActive \ txOff[p]) \ {x}) # {}

\* ------------------------------------- GTFSScheduler.checkAndUpdate steps

\* VersionChecker.HasNewerVersion: true iff no row is active or lastModified
\* is after the active row's updated_at.
HasNewerOrEqual(m) == isActive = {} \/ \E a \in isActive : m >= updatedAt[a]

HasNewerVersion(m) == isActive = {} \/ \E a \in isActive : m > updatedAt[a]

\* Whether an archive with the inner archives a has schedule CSV files at its
\* root: a flat archive has, an archive without recognized files and a nested
\* one have not.
RootCsv(a) == IF a = <<>> THEN BOOLEAN ELSE {FALSE}

\* checkAndUpdate up to the download: FetchMetadata, HasNewerVersion and
\* Download. Either of the three fails, or nothing newer is there, or the
\* archive (one of A) is on disk and CreateNewVersion is next. On the return
\* "No new version available" lm keeps the last_modified that was compared.
checkAndUpdate(p, A) ==
  /\ pc[p] = "idle"
  /\ \/ /\ outcome' = [outcome EXCEPT ![p] = "failed"]
        /\ lm' = [lm EXCEPT ![p] = 0]
        /\ UNCHANGED <<pc, archive, activeAtDetect, zip>>
     \/ \E m \in 1..MaxModified :
          IF ~HasNewerVersion(m)
          THEN /\ outcome' = [outcome EXCEPT ![p] = "noop"]
               /\ lm' = [lm EXCEPT ![p] = m]
               /\ UNCHANGED <<pc, archive, activeAtDetect, zip>>
          ELSE \E a \in A : \E root \in RootCsv(a) :
                 /\ outcome' = [outcome EXCEPT ![p] = "none"]
                 /\ pc' = [pc EXCEPT ![p] = "creating"]
                 /\ lm' = [lm EXCEPT ![p] = m]
                 /\ archive' = [archive EXCEPT ![p] = a]
                 /\ zip' = [zip EXCEPT ![p] = [root |-> root, inner |-> a]]
                 /\ activeAtDetect' = [activeAtDetect EXCEPT ![p] = isActive]
  /\ UNCHANGED <<storeVars, txVars, gcVars, realtimeVars, consumerVars, otherVars, vid>>

\* CreateNewVersion: BeginTx, and the first statement
\* UPDATE gtfs.versions SET is_active = false WHERE is_active = true
\* takes its snapshot.
\* (At most MaxVersions calls of CreateNewVersion reach their INSERT.)
CreateNewVersionBegin(p) ==
  /\ pc[p] = "creating"
  /\ nextId + Cardinality({q \in Schedulers : pc[q] = "cvDeact"}) <= MaxVersions
  /\ txSnap' = [txSnap EXCEPT ![p] = isActive]
  /\ pc' = [pc EXCEPT ![p] = "cvDeact"]
  /\ UNCHANGED <<vrows, isActive, updatedAt, createdAt, nextId, entities,
                 lm, archive, vid, activeAtDetect, zip, outcome,
                 txOff, txOn, txNew, txRows, gcVars, realtimeVars, consumerVars, otherVars>>

\* The UPDATE ... WHERE is_active = true of p's transaction: it waits for the
\* row locks of the rows its snapshot matched and then updates those that
\* are still active.
DeactivatedRows(p) == txSnap[p] \cap isActive \cap vrows

CanDeactivate(p) == \A r \in txSnap[p] : ~LockedByOther(p, r)

\* CreateNewVersion: the UPDATE completes, then
\* INSERT INTO gtfs.versions (..., is_active, ...) VALUES (..., false, ...)
\* RETURNING version_id (the sequence advances whether or not the tx commits).
\* created_at DEFAULT CURRENT_TIMESTAMP stamps the rows in the order of their
\* inserts, which is the order of their ids.
CreateNewVersionInsert(p) ==
  /\ pc[p] = "cvDeact"
  /\ CanDeactivate(p)
  /\ txOff' = [txOff EXCEPT ![p] = DeactivatedRows(p)]
  /\ txSnap' = [txSnap EXCEPT ![p] = {}]
  /\ txNew' = [txNew EXCEPT ![p] = nextId]
  /\ nextId' = nextId + 1
  /\ pc' = [pc EXCEPT ![p] = "cvCommit"]
  /\ UNCHANGED <<vrows, isActive, updatedAt, createdAt, entities, gcVars, realtimeVars, consumerVars, otherVars,
                 lm, archive, vid, activeAtDetect, zip, outcome, txOn, txRows>>

\* tx.Commit() of CreateNewVersion; checkAndUpdate goes on to MkdirTemp,
\* zip.OpenReader and the loop over the inner archives.
CreateNewVersionCommit(p) ==
  /\ pc[p] = "cvCommit"
  /\ vrows' = vrows \cup {txNew[p]}
  /\ isActive' = isActive \ txOff[p]
  /\ updatedAt' = [updatedAt EXCEPT ![txNew[p]] = lm[p]]
  /\ createdAt' = [createdAt EXCEPT ![txNew[p]] = txNew[p]]
  /\ vid' = [vid EXCEPT ![p] = txNew[p]]
  /\ Rollback(p)
  /\ pc' = [pc EXCEPT ![p] = IF archive[p] = <<>> THEN "activating" ELSE "importing"]
  /\ UNCHANGED <<nextId, entities, gcVars, realtimeVars, consumerVars, otherVars, lm, archive, activeAtDetect, zip,
                 outcome>>

\* Importer.Import for the next inner archive: BeginTx, ParseZip and the
\* batch inserters: the rows of the source are inserted under
\* (source_id, version_id). Every entity table has
\* version_id REFERENCES versions(version_id).
Import(p) ==
  /\ pc[p] = "importing"
  /\ IF vid[p] \in vrows
     THEN /\ txRows' = [txRows EXCEPT ![p] = {<<vid[p], Head(archive[p])>>}]
          /\ pc' = [pc EXCEPT ![p] = "impCommit"]
          /\ UNCHANGED <<outcome, lm, archive, vid, activeAtDetect, zip,
                         txSnap, txOff, txOn, txNew>>
     ELSE ReturnErr(p, "fk_violation")
  /\ UNCHANGED <<storeVars, gcVars, realtimeVars, consumerVars, otherVars>>

\* tx.Commit() of Importer.Import for one source, and the loop goes on.
ImportCommit(p) ==
  /\ pc[p] = "impCommit"
  /\ entities' = entities \cup txRows[p]
  /\ archive' = [archive EXCEPT ![p] = Tail(archive[p])]
  /\ Rollback(p)
  /\ pc' = [pc EXCEPT ![p] = IF Tail(archive[p]) = <<>> THEN "activating" ELSE "importing"]
  /\ UNCHANGED <<vrows, isActive, updatedAt, createdAt, nextId, gcVars, realtimeVars, consumerVars, otherVars,
                 lm, vid, activeAtDetect, zip, outcome>>

\* ActivateVersion: BeginTx and the snapshot of its first UPDATE.
ActivateVersionBegin(p) ==
  /\ pc[p] = "activating"
  /\ txSnap' = [txSnap EXCEPT ![p] = isActive]
  /\ pc' = [pc EXCEPT ![p] = "avDeact"]
  /\ UNCHANGED <<storeVars, gcVars, realtimeVars, consumerVars, otherVars, lm, archive, vid, activeAtDetect, zip, outcome,
                 txOff, txOn, txNew, txRows>>

\* ActivateVersion: the UPDATE ... SET is_active = false completes.
ActivateVersionDeactivate(p) ==
  /\ pc[p] = "avDeact"
  /\ CanDeactivate(p)
  /\ txOff' = [txOff EXCEPT ![p] = DeactivatedRows(p)]
  /\ txSnap' = [txSnap EXCEPT ![p] = {}]
  /\ pc' = [pc EXCEPT ![p] = "avSet"]
  /\ UNCHANGED <<storeVars, gcVars, realtimeVars, consumerVars, otherVars, lm, archive, vid, activeAtDetect, zip, outcome,
                 txOn, txNew, txRows>>

\* The committed is_active rows once ActivateVersion has returned an error:
\* its deferred tx.Rollback() discards the is_active = false of txOff[p].
DeactivationCommitted(p) == isActive \ txOff[p]

AfterRollback(p) == isActive

\* UPDATE gtfs.versions SET is_active = true WHERE version_id = $1, then the
\* RowsAffected check. The statement waits for a lock on the row and for any
\* open transaction holding a conflicting entry of the unique index.
ActivateVersionSet(p) ==
  /\ pc[p] = "avSet"
  /\ ~LockedByOther(p, vid[p])
  /\ \A q \in Schedulers \ {p} : txOn[q] = NoVersion
  /\ \A r \in isActive \ txOff[p] : ~LockedByOther(p, r)
  /\ IF vid[p] \notin vrows
     THEN ReturnErr(p, "not_found") /\ isActive' = AfterRollback(p)
     ELSE IF UniqueActiveViolated(p, vid[p])
     THEN ReturnErr(p, "unique_violation") /\ isActive' = AfterRollback(p)
     ELSE /\ txOn' = [txOn EXCEPT ![p] = vid[p]]
          /\ pc' = [pc EXCEPT ![p] = "avCommit"]
          /\ UNCHANGED <<outcome, lm, archive, vid, activeAtDetect, zip,
                         txSnap, txOff, txNew, txRows, isActive>>
  /\ UNCHANGED <<vrows, updatedAt, createdAt, nextId, entities, gcVars,
                 realtimeVars, consumerVars, otherVars>>

\* The rows with is_active = true once ActivateVersion has committed.
DeactivatedOnly(p) == isActive \ txOff[p]

Activated(p) == (isActive \ txOff[p]) \cup {txOn[p]}

\* tx.Commit() of ActivateVersion; checkAndUpdate returns nil.
ActivateVersionCommit(p) ==
  /\ pc[p] = "avCommit"
  /\ isActive' = Activated(p)
  /\ Rollback(p)
  /\ Return(p, "ok")
  /\ UNCHANGED <<vrows, updatedAt, createdAt, nextId, entities, gcVars, realtimeVars, consumerVars, otherVars>>

\* Any step of checkAndUpdate after the download fails (a store or file
\* error, or a cancelled context): the open transaction is rolled back by
\* its deferred Rollback and checkAndUpdate returns the error.
FailablePcs == {"creating", "cvDeact", "cvCommit", "importing", "impCommit",
                "activating", "avDeact", "avSet", "avCommit"}

StepFails(p) ==
  /\ pc[p] \in FailablePcs
  /\ ReturnErr(p, "failed")
  /\ UNCHANGED <<storeVars, gcVars, realtimeVars, consumerVars, otherVars>>

\* ------------------------------------------- CleanupScheduler (version GC)

\* CleanupScheduler.LockForImport: importLock.Lock(), which is held until
\* UnlockAfterImport, and the flag.
LockForImport ==
  /\ ~importLock
  /\ importLock' = TRUE
  /\ isImportInProgress' = TRUE
  /\ UNCHANGED <<storeVars, schedVars, txVars, gcPc, gcTargets, realtimeVars,
                 consumerVars, otherVars>>

\* CleanupScheduler.UnlockAfterImport: the flag, then importLock.Unlock().
UnlockAfterImport ==
  /\ importLock
  /\ isImportInProgress' = FALSE
  /\ importLock' = FALSE
  /\ UNCHANGED <<storeVars, schedVars, txVars, gcPc, gcTargets, realtimeVars,
                 consumerVars, otherVars>>

\* CleanupScheduler.canPerformCleanup: RLock, read the flag, RUnlock. The
\* RLock blocks for as long as importLock is held for writing.
canPerformCleanup == ~isImportInProgress

\* SELECT version_id ... WHERE is_active = false ORDER BY created_at DESC
\* OFFSET keep: the inactive rows older than the keep newest inactive ones.
InactiveRows == vrows \ isActive

NewerInactive(v) == {w \in InactiveRows : createdAt[w] > createdAt[v]}

VersionsToDelete(keep) ==
  {v \in InactiveRows : Cardinality(NewerInactive(v)) >= keep}

\* performStaticCleanup: the gate, and the query of CleanupOldGTFSVersions
\* selecting the versions to delete (the loop over the rows has nothing to
\* do when there is none). While importLock is held for writing the call is
\* blocked in the RLock of canPerformCleanup ("waiting") and goes on once
\* the lock is released.
performStaticCleanup ==
  /\ gcPc \in {"idle", "waiting"}
  /\ IF importLock
     THEN gcPc' = "waiting" /\ UNCHANGED gcTargets
     ELSE IF canPerformCleanup
     THEN /\ gcPc' = IF VersionsToDelete(KeepInactiveVersions) = {} THEN "idle"
                     ELSE "deleting"
          /\ gcTargets' = VersionsToDelete(KeepInactiveVersions)
     ELSE gcPc' = "idle" /\ UNCHANGED gcTargets
  /\ UNCHANGED <<storeVars, schedVars, txVars, isImportInProgress, importLock,
                 realtimeVars, consumerVars, otherVars>>

\* feed_messages.version_id REFERENCES gtfs.versions(version_id), without
\* ON DELETE: a version a feed message references cannot be deleted.
ReferencedVersions == {m.version : m \in feedMessages \cup rtTxMsg}

\* CleanupOldGTFSVersions: for every selected version its entity rows are
\* deleted table by table and then its row of gtfs.versions, unless a feed
\* message references it (the error is logged and the loop goes on). A
\* DELETE waits for the locks open transactions hold on the row.
CleanupOldGTFSVersions ==
  /\ gcPc = "deleting"
  /\ \A q \in Schedulers :
       /\ gcTargets \cap LockedBy(q) = {}
       /\ \A e \in txRows[q] : e[1] \notin gcTargets
  /\ vrows' = vrows \ (gcTargets \ ReferencedVersions)
  /\ isActive' = isActive \ (gcTargets \ ReferencedVersions)
  /\ entities' = {e \in entities : e[1] \notin gcTargets}
  /\ updatedAt' = [v \in VersionIds |->
                     IF v \in gcTargets \ ReferencedVersions THEN 0 ELSE updatedAt[v]]
  /\ createdAt' = [v \in VersionIds |->
                     IF v \in gcTargets \ ReferencedVersions THEN 0 ELSE createdAt[v]]
  /\ gcPc' = "idle"
  /\ gcTargets' = {}
  /\ UNCHANGED <<nextId, schedVars, txVars, isImportInProgress, importLock,
                 realtimeVars, consumerVars, otherVars>>

\* ------------------------------------------------- the realtime store

FeedTypes == {"vehicle_positions", "trip_updates", "service_alerts", "unknown"}

\* The table each realtime table references with ON DELETE CASCADE.
Parent(t) ==
  CASE t = "vehicle_positions" -> "feed_messages"
    [] t = "trip_updates" -> "feed_messages"
    [] t = "alerts" -> "feed_messages"
    [] t = "stop_time_updates" -> "trip_updates"
    [] OTHER -> "alerts"

\* The entity table a feed type is written to, and that table's child tables.
EntityTable(ft) ==
  CASE ft = "vehicle_positions" -> "vehicle_positions"
    [] ft = "trip_updates" -> "trip_updates"
    [] OTHER -> "alerts"

ChildTables(t) ==
  CASE t = "trip_updates" -> {"stop_time_updates"}
    [] t = "alerts" -> {"alert_active_periods", "alert_informed_entities",
                        "alert_translations"}
    [] OTHER -> {}

\* The tables that reference table t, directly or through another table.
Referencing(t) ==
  CASE t = "feed_messages" ->
         {"vehicle_positions", "trip_updates", "stop_time_updates", "alerts",
          "alert_active_periods", "alert_informed_entities",
          "alert_translations"}
    [] OTHER -> ChildTables(t)

\* The rows of `rows` that reference a feed message of `ids`, directly or
\* through their entity row; every row of one message carries its id.
NoCascade(rows, ids) == {}

Cascade(rows, ids) == {r \in rows : r[2] \in ids}

MessageIds(msgs) == {m.id : m \in msgs}

\* ---------------------------------------- Processor.processFeedMessage

\* The row with is_active = TRUE, whatever the cache holds.
getActiveVersion ==
  IF isActive = {} THEN NoVersion
  ELSE CHOOSE v \in isActive : TRUE

\* Processor.getOrCreateVersion: the cached id if there is one, else the row
\* with is_active = TRUE (NoVersion when there is none: sql.ErrNoRows).
getOrCreateVersion ==
  IF versionMapping # NoVersion THEN versionMapping
  ELSE IF isActive = {} THEN NoVersion
  ELSE CHOOSE v \in isActive : TRUE

\* The FeedResults the drainer receives from feedChan: one with Error set,
\* one with neither Error nor Message, one with a decoded Message.
FeedResultKinds == {"error", "nil_message", "message"}

\* processFeedResults: a result with Error set or with a nil Message is
\* logged and the loop continues.
SkippedOnError(k) == k = "error"

Skipped(k) == k \in {"error", "nil_message"}

\* processFeedResults receives a result it skips.
skipFeedResult ==
  /\ rtPc = "idle"
  /\ \E k \in FeedResultKinds : Skipped(k) /\ rtLast' = k
  /\ UNCHANGED <<storeVars, schedVars, txVars, gcVars, consumerVars, otherVars, rtStoreVars, rcVars,
                 versionMapping, rtPc, rtType, rtVersion, rtCached, rtTxMsg,
                 rtTxRows, failedIds, rtResult>>

\* processFeedResults receives a result it does not skip and calls
\* processFeedMessage, here up to BeginTx: the source of the endpoint is
\* looked up in sourceMapping ("unknown source" returns at once), then
\* getOrCreateVersion (which sends its SELECT when nothing is cached, and
\* caches what it read) and the new transaction. Without an active version
\* it returns the error "no active GTFS version found".
processFeedMessage ==
  /\ rtPc = "idle"
  /\ nextFm <= MaxMessages
  /\ \E k \in FeedResultKinds, ft \in FeedTypes, known \in BOOLEAN :
       /\ ~Skipped(k)
       /\ IF ~known
          THEN /\ rtLast' = "failed"
               /\ UNCHANGED <<versionMapping, rtPc, rtType, rtVersion, rtCached,
                              rtResult, rtQueries>>
          ELSE /\ versionMapping = NoVersion => rtQueries < MaxQueries
               /\ rtQueries' = IF versionMapping = NoVersion THEN rtQueries + 1
                               ELSE rtQueries
               /\ IF getOrCreateVersion = NoVersion
                  THEN /\ rtLast' = "failed"
                       /\ UNCHANGED <<versionMapping, rtPc, rtType, rtVersion,
                                      rtCached, rtResult>>
                  ELSE /\ versionMapping' = getOrCreateVersion
                       /\ rtVersion' = getOrCreateVersion
                       /\ rtCached' = (versionMapping # NoVersion)
                       /\ rtType' = ft
                       /\ rtResult' = k
                       /\ rtPc' = "header"
                       /\ UNCHANGED rtLast
  /\ UNCHANGED <<storeVars, schedVars, txVars, gcVars, consumerVars, timeVars, loopVars,
                 downloadVars, mainVars, laterVars, rtStoreVars, rcVars,
                 rtTxMsg, rtTxRows, failedIds>>

\* The deferred tx.Rollback() of processFeedMessage on an error return: no
\* row of the transaction reaches the store.
KeptOnError(rows) == rows

RolledBack(rows) == {}

ProcessorReturnsErr ==
  /\ rtPc' = "idle"
  /\ rtType' = "none"
  /\ rtVersion' = NoVersion
  /\ rtCached' = FALSE
  /\ rtResult' = "none"
  /\ rtLast' = "failed"
  /\ failedIds' = failedIds \cup MessageIds(rtTxMsg)
  /\ feedMessages' = feedMessages \cup RolledBack(rtTxMsg)
  /\ rtRows' = rtRows \cup RolledBack(rtTxRows)
  /\ rtTxMsg' = {}
  /\ rtTxRows' = {}

\* Processor.insertFeedMessage: INSERT INTO gtfs_rt.feed_messages ...
\* RETURNING feed_message_id, with received_at = time.Now() and version_id
\* REFERENCES gtfs.versions. activeAtInsert records the rows active at that
\* moment.
insertFeedMessage ==
  /\ rtPc = "header"
  /\ IF rtVersion \in vrows
     THEN /\ rtTxMsg' = {[id |-> nextFm, receivedAt |-> now,
                          version |-> rtVersion, cached |-> rtCached,
                          activeAtInsert |-> isActive]}
          /\ nextFm' = nextFm + 1
          /\ rtPc' = "entities"
          /\ UNCHANGED <<feedMessages, rtRows, rtType, rtVersion, rtCached, rtTxRows,
                         failedIds, rtResult, rtLast>>
     ELSE ProcessorReturnsErr /\ UNCHANGED nextFm
  /\ UNCHANGED <<storeVars, schedVars, txVars, gcVars, consumerVars, otherVars, now, versionMapping,
                 rcVars>>

\* The switch on the feed type and the bulk insert of the entity rows
\* (processVehiclePositionsBulk, and the first COPY of processTripUpdatesBulk
\* and processServiceAlertsBulk); an unknown feed type is an error.
processEntitiesBulk ==
  /\ rtPc = "entities"
  /\ IF rtType = "unknown"
     THEN ProcessorReturnsErr
     ELSE /\ rtTxRows' = {<<EntityTable(rtType), id>> : id \in MessageIds(rtTxMsg)}
          /\ rtPc' = IF ChildTables(EntityTable(rtType)) = {} THEN "commit"
                     ELSE "children"
          /\ UNCHANGED <<feedMessages, rtRows, rtType, rtVersion, rtCached, rtTxMsg,
                         failedIds, rtResult, rtLast>>
  /\ UNCHANGED <<storeVars, schedVars, txVars, gcVars, consumerVars, otherVars, now, nextFm,
                 versionMapping, rcVars>>

\* The bulk insert of the child rows (stop_time_updates; the three alert
\* child tables).
processChildrenBulk ==
  /\ rtPc = "children"
  /\ rtTxRows' = rtTxRows \cup
       {<<t, id>> : t \in ChildTables(EntityTable(rtType)),
                    id \in MessageIds(rtTxMsg)}
  /\ rtPc' = "commit"
  /\ UNCHANGED <<storeVars, schedVars, txVars, gcVars, consumerVars, otherVars, rtStoreVars, rcVars,
                 versionMapping, rtType, rtVersion, rtCached, rtTxMsg, failedIds,
                 rtResult, rtLast>>

\* tx.Commit() of processFeedMessage.
commitFeedMessage ==
  /\ rtPc = "commit"
  /\ feedMessages' = feedMessages \cup rtTxMsg
  /\ rtRows' = rtRows \cup rtTxRows
  /\ rtTxMsg' = {}
  /\ rtTxRows' = {}
  /\ rtPc' = "idle"
  /\ rtType' = "none"
  /\ rtVersion' = NoVersion
  /\ rtCached' = FALSE
  /\ rtResult' = "none"
  /\ rtLast' = "processed"
  /\ UNCHANGED <<storeVars, schedVars, txVars, gcVars, consumerVars, otherVars, now, nextFm,
                 versionMapping, failedIds, rcVars>>

\* A statement of the open transaction, or its commit, fails.
ProcessorStepFails ==
  /\ rtPc \in {"header", "entities", "children", "commit"}
  /\ ProcessorReturnsErr
  /\ UNCHANGED <<storeVars, schedVars, txVars, gcVars, consumerVars, otherVars, now, nextFm,
                 versionMapping, rcVars>>

\* ------------------------------------------------- realtime retention

\* Time passes.
Tick ==
  /\ now < MaxTime
  /\ now' = now + 1
  /\ UNCHANGED <<storeVars, schedVars, txVars, gcVars, consumerVars, otherVars, feedMessages, rtRows,
                 nextFm, procVars, rcVars>>

\* Processor.runCleanupJob: the ticker (or the initial run) calls
\* performCleanup.
runCleanupJob ==
  /\ rcPc = "idle"
  /\ rcPc' = "delete"
  /\ rcOutcome' = "running"
  /\ UNCHANGED <<storeVars, schedVars, txVars, gcVars, consumerVars, otherVars, rtStoreVars, procVars,
                 rcIdx, rcDays>>

\* WHERE received_at < NOW() - INTERVAL '15 minutes'
OlderThan(w) == {m \in feedMessages : m.receivedAt < now - w}

\* Processor.performCleanup: DELETE FROM gtfs_rt.feed_messages WHERE
\* received_at < NOW() - INTERVAL '15 minutes', the child rows going by
\* ON DELETE CASCADE; or the statement fails and nothing is deleted.
performCleanup ==
  /\ rcPc = "delete"
  /\ \E ok \in BOOLEAN :
       IF ok
       THEN /\ feedMessages' = feedMessages \ OlderThan(RetentionWindow)
            /\ rtRows' = rtRows \ Cascade(rtRows, MessageIds(OlderThan(RetentionWindow)))
            /\ rcOutcome' = "ok"
       ELSE /\ rcOutcome' = "failed"
            /\ UNCHANGED <<feedMessages, rtRows>>
  /\ rcPc' = "idle"
  /\ UNCHANGED <<storeVars, schedVars, txVars, gcVars, consumerVars, otherVars, now, nextFm, procVars,
                 rcIdx, rcDays>>

\* The tables CleanupOldRealtimeDataBatched truncates, in its order.
TruncateTables ==
  <<"stop_time_updates", "trip_updates", "vehicle_positions", "alerts",
    "alert_active_periods", "alert_informed_entities", "alert_translations",
    "feed_messages">>

\* retentionDays of the callers of CleanupOldRealtimeData.
LegacyRetentionDays == {1}

StartTruncate(days) ==
  /\ rcPc' = "truncate"
  /\ rcIdx' = 1
  /\ rcDays' = days
  /\ rcOutcome' = "running"
  /\ UNCHANGED <<storeVars, schedVars, txVars, gcVars, consumerVars, otherVars, rtStoreVars, procVars>>

\* CleanupScheduler.performRealtimeCleanup: the gate (blocked in its RLock
\* while importLock is held for writing), then
\* CleanupOldRealtimeDataBatched(ctx, 0, 1).
performRealtimeCleanup ==
  /\ rcPc \in {"idle", "waiting"}
  /\ IF importLock
     THEN /\ rcPc' = "waiting"
          /\ UNCHANGED <<storeVars, schedVars, txVars, gcVars, consumerVars, otherVars,
                         rtStoreVars, procVars, rcIdx, rcDays, rcOutcome>>
     ELSE IF canPerformCleanup
     THEN StartTruncate(0)
     ELSE /\ rcPc' = "idle"
          /\ UNCHANGED <<storeVars, schedVars, txVars, gcVars, consumerVars, otherVars,
                         rtStoreVars, procVars, rcIdx, rcDays, rcOutcome>>

\* Maintenance.CleanupOldRealtimeData(ctx, retentionDays), which calls
\* CleanupOldRealtimeDataBatched(ctx, retentionDays, 5000).
CleanupOldRealtimeData ==
  /\ rcPc = "idle"
  /\ \E days \in LegacyRetentionDays : StartTruncate(days)

\* The tables the processor's open transaction has written to (and holds a
\* lock on until it ends).
TxTables ==
  (IF rtTxMsg = {} THEN {} ELSE {"feed_messages"}) \cup {r[1] : r \in rtTxRows}

Truncated(t) == {t} \cup Referencing(t)

\* One round of the loop of CleanupOldRealtimeDataBatched: TRUNCATE TABLE t
\* CASCADE empties t and every table referencing it, once no open transaction
\* holds a lock on any of them; when the count or the TRUNCATE fails the loop
\* goes on with the next table. retentionDays is not used.
CleanupOldRealtimeDataBatched ==
  /\ rcPc = "truncate"
  /\ \E ok \in BOOLEAN :
       IF ok
       THEN /\ TxTables \cap Truncated(TruncateTables[rcIdx]) = {}
            /\ rtRows' = {r \in rtRows : r[1] \notin Truncated(TruncateTables[rcIdx])}
            /\ feedMessages' = IF TruncateTables[rcIdx] = "feed_messages" THEN {}
                               ELSE feedMessages
            /\ rcOutcome' = IF rcIdx = Len(TruncateTables) /\ rcOutcome = "running"
                            THEN "ok" ELSE rcOutcome
       ELSE /\ rcOutcome' = "failed"
            /\ UNCHANGED <<feedMessages, rtRows>>
  /\ IF rcIdx = Len(TruncateTables)
     THEN rcPc' = "idle" /\ rcIdx' = 0 /\ rcDays' = 0
     ELSE rcPc' = rcPc /\ rcIdx' = rcIdx + 1 /\ rcDays' = rcDays
  /\ UNCHANGED <<storeVars, schedVars, txVars, gcVars, consumerVars, otherVars, now, nextFm, procVars>>

\* ------------------------------------------------- the realtime Consumer

\* What a fetch that holds a token and misses the cache runs into: the
\* request cannot be built, the transport fails, or the response is a 304, a
\* status other than 200 and 304, a 200 whose body cannot be read or decoded,
\* or a 200 that decodes.
Responses == {"request", "transport", "304", "status", "read", "decode", "200"}

\* cap(feedChan) results are waiting in the channel.
NeverFull == FALSE

FeedChanFull == chanLen = FeedChanCap

\* The deferred select of fetchFeed: the result goes into feedChan if there
\* is room; it is dropped by the default case when there is none, and by the
\* ctx.Done() and stopChan cases when the consumer is stopping (a select
\* takes any of its ready cases).
Deliver(e, h, m, er) ==
  \E send \in BOOLEAN :
    /\ send => ~FeedChanFull
    /\ ~send => (FeedChanFull \/ stopped)
    /\ chanLen' = IF send THEN chanLen + 1 ELSE chanLen
    /\ lastResult' = [endpoint |-> e, how |-> h, msg |-> m, err |-> er,
                      sent |-> send]
    /\ sinceResult' = [sinceResult EXCEPT ![e] = IF h = "rate_limit" THEN @ ELSE 0]

\* cache.get(endpoint.Name) is an entry younger than CacheExpiration.
FreshCache(e) == cacheAge[e] # NoEntry /\ cacheAge[e] < CacheExpiration

\* cachedEntry.feedMessage of the endpoint's cache entry.
NoCachedMessage(e) == NoMessage

CachedMessage(e) == cacheMsg[e]

\* A return of fetchFeed with result.Error set: result.Message stays nil.
ErrorWithStale(e, h) == Deliver(e, h, cacheMsg[e], TRUE)

ErrorResult(e, h) == Deliver(e, h, NoMessage, TRUE)

\* fetchFeed once it holds a token: the cache check, and on a miss the HTTP
\* request, whose decoded 200 response is cached.
FetchWithToken(e) ==
  /\ tokens' = tokens - 1
  /\ IF FreshCache(e)
     THEN /\ Deliver(e, "cached", CachedMessage(e), FALSE)
          /\ UNCHANGED <<cacheAge, cacheMsg, lastOk, recentRequests>>
     ELSE \E resp \in Responses :
            /\ recentRequests' = IF resp = "request" THEN recentRequests
                                 ELSE [recentRequests EXCEPT ![1] = @ + 1]
            /\ IF resp = "200"
               THEN \E m \in 1..MaxFeed :
                      /\ cacheAge' = [cacheAge EXCEPT ![e] = 0]
                      /\ cacheMsg' = [cacheMsg EXCEPT ![e] = m]
                      /\ lastOk' = [lastOk EXCEPT ![e] = m]
                      /\ Deliver(e, "200", m, FALSE)
               ELSE /\ UNCHANGED <<cacheAge, cacheMsg, lastOk>>
                    /\ IF resp = "304" /\ cacheAge[e] # NoEntry
                       THEN Deliver(e, "304", CachedMessage(e), FALSE)
                       ELSE ErrorResult(e, resp)

\* pollEndpoint: the ticker (or the start) calls fetchFeed, whose select
\* takes a token if there is one, returns "consumer stopped" if the consumer
\* is stopping, and else waits.
fetchFeed(e) ==
  /\ pollIn[e] = 0
  /\ e \notin waiting
  /\ pollIn' = [pollIn EXCEPT ![e] = pollEvery]
  /\ \/ /\ tokens > 0
        /\ FetchWithToken(e)
        /\ UNCHANGED waiting
     \/ /\ stopped
        /\ ErrorResult(e, "stopped")
        /\ UNCHANGED <<tokens, waiting, cacheAge, cacheMsg, lastOk, recentRequests>>
     \/ /\ tokens = 0 /\ ~stopped
        /\ waiting' = waiting \cup {e}
        /\ UNCHANGED <<tokens, cacheAge, cacheMsg, lastOk, recentRequests,
                       lastResult, chanLen, sinceResult>>
  /\ UNCHANGED <<storeVars, schedVars, txVars, gcVars, realtimeVars, otherVars, refillIn,
                 capTokens, pollEvery, stopped>>

\* A waiting fetchFeed receives a token within its 5 seconds.
fetchFeedGetsToken(e) ==
  /\ e \in waiting
  /\ tokens > 0
  /\ waiting' = waiting \ {e}
  /\ FetchWithToken(e)
  /\ UNCHANGED <<storeVars, schedVars, txVars, gcVars, realtimeVars, otherVars, refillIn,
                 pollIn, capTokens, pollEvery, stopped>>

\* A waiting fetchFeed gives up: no token came within 5 seconds ("rate limit
\* exceeded": the channel is empty and the refill is not due within this
\* tick), or the consumer is stopping.
fetchFeedGivesUp(e) ==
  /\ e \in waiting
  /\ (tokens = 0 /\ refillIn > 0) \/ stopped
  /\ waiting' = waiting \ {e}
  /\ ErrorResult(e, IF stopped THEN "stopped" ELSE "rate_limit")
  /\ UNCHANGED <<storeVars, schedVars, txVars, gcVars, realtimeVars, otherVars, tokens,
                 refillIn, pollIn, cacheAge, cacheMsg, lastOk, recentRequests,
                 capTokens, pollEvery, stopped>>

\* len(rateLimiter.tokens) after the refill loop, which sends until the
\* channel is full.
RefilledByOne == IF tokens < capTokens THEN tokens + 1 ELSE tokens

Refilled == capTokens

\* refreshRateLimiter: the ticker fires and the channel is filled up.
refreshRateLimiter ==
  /\ refillIn = 0
  /\ tokens' = Refilled
  /\ refillIn' = RefillInterval
  /\ UNCHANGED <<storeVars, schedVars, txVars, gcVars, realtimeVars, otherVars, pollIn,
                 waiting, cacheAge, recentRequests, capTokens, pollEvery,
                 cacheMsg, lastOk, lastResult, chanLen, stopped, sinceResult>>

\* Processor.processFeedResults receives a result from feedChan.
processFeedResults ==
  /\ chanLen > 0
  /\ chanLen' = chanLen - 1
  /\ UNCHANGED <<storeVars, schedVars, txVars, gcVars, realtimeVars, otherVars, tokens,
                 refillIn, pollIn, waiting, cacheAge, recentRequests, capTokens,
                 pollEvery, cacheMsg, lastOk, lastResult, stopped, sinceResult>>

\* Consumer.Stop (close(stopChan)) or the cancelling of ctx.
Stop ==
  /\ ~stopped
  /\ stopped' = TRUE
  /\ UNCHANGED <<storeVars, schedVars, txVars, gcVars, realtimeVars, otherVars, tokens,
                 refillIn, pollIn, waiting, cacheAge, recentRequests, capTokens,
                 pollEvery, cacheMsg, lastOk, lastResult, chanLen, sinceResult>>

\* 15 seconds pass on the running consumer, once every ticker that is due
\* has fired and every fetch has returned.
Elapse ==
  /\ ~stopped
  /\ refillIn > 0
  /\ \A e \in Endpoints : pollIn[e] > 0
  /\ waiting = {}
  /\ refillIn' = refillIn - 1
  /\ pollIn' = [e \in Endpoints |-> pollIn[e] - 1]
  /\ cacheAge' = [e \in Endpoints |->
                    IF cacheAge[e] = NoEntry \/ cacheAge[e] >= CacheExpiration
                    THEN cacheAge[e] ELSE cacheAge[e] + 1]
  /\ recentRequests' = [i \in 1..RefillInterval |->
                          IF i = 1 THEN 0 ELSE recentRequests[i - 1]]
  /\ sinceResult' = [e \in Endpoints |->
                       IF sinceResult[e] > RefillInterval THEN sinceResult[e]
                       ELSE sinceResult[e] + 1]
  /\ lastResult' = NoResult
  /\ UNCHANGED <<storeVars, schedVars, txVars, gcVars, realtimeVars, otherVars, tokens,
                 waiting, capTokens, pollEvery, cacheMsg, lastOk, chanLen,
                 stopped>>

\* ------------------------------------------------- HH:MM:SS conversion

\* The time strings HH:MM:SS, as the fields strings.Split(timeStr, ":") and
\* strconv.Atoi give.
TimeStrings == {<<h, m, s>> : h \in 0..MaxHours, m \in {0, 59}, s \in {0, 59}}

\* parseGTFSTime of the processor: int32(hours*3600 + minutes*60 + seconds);
\* with two-digit fields the sum is far inside the range of int32.
parseGTFSTime(t) == t[1] * 3600 + t[2] * 60 + t[3]

\* parseGTFSTime of the importer: time.Parse("2006-01-02 15:04:05", ...) on
\* the base date, which returns an error ("hour out of range") unless the
\* fields are a time of day; the result as seconds since midnight.
TimeError == -3

importerParseGTFSTime(t) ==
  IF t[1] <= 23 /\ t[2] <= 59 /\ t[3] <= 59
  THEN t[1] * 3600 + t[2] * 60 + t[3]
  ELSE TimeError

\* The realtime insert path (processVehiclePositionsBulk and the others):
\* start_time is the parsed value.
parseStartTime ==
  /\ tmRt = NotParsed
  /\ tmRt' = parseGTFSTime(tmIn)
  /\ UNCHANGED <<storeVars, schedVars, txVars, gcVars, realtimeVars, consumerVars,
                 tmIn, tmStatic, loopVars, downloadVars, mainVars, lookupVars, laterVars>>

\* OnStopTime of Importer.Import: arrival_time is the parsed time if
\* parseGTFSTime returned no error, and else stays the zero sql.NullTime.
OnStopTime ==
  /\ tmStatic = NotParsed
  /\ tmStatic' = IF importerParseGTFSTime(tmIn) = TimeError THEN NullTime
                 ELSE importerParseGTFSTime(tmIn)
  /\ UNCHANGED <<storeVars, schedVars, txVars, gcVars, realtimeVars, consumerVars,
                 tmIn, tmRt, loopVars, downloadVars, mainVars, lookupVars, laterVars>>

\* ----------------------------------------- GTFSScheduler.Start and Stop

NotLoopVars == <<storeVars, schedVars, txVars, gcVars, realtimeVars, consumerVars,
                 timeVars, downloadVars, mainVars, lookupVars, laterVars>>

\* Start on a scheduler that is not running: running is set, s.cancel is the
\* cancel of the new ctx, and the goroutine goes into the initial
\* checkAndUpdate. On a running scheduler Start returns "scheduler already
\* running".
SchedulerStart ==
  /\ ~running
  /\ \E g \in Loops :
       /\ lpPc[g] = "none"
       /\ \A h \in Loops : h < g => lpPc[h] # "none"
       /\ lpPc' = [lpPc EXCEPT ![g] = "initial"]
       /\ cancelOf' = g
  /\ running' = TRUE
  /\ UNCHANGED <<NotLoopVars, lpCtx, lpTick, lpErr>>

\* The loops that are inside checkAndUpdate.
Checking == {g \in Loops : lpPc[g] \in {"initial", "check"}}

\* checkAndUpdate returns to the loop, with an error (logged) or nil; after
\* the initial check the ticker is created.
CheckReturns(g) ==
  /\ g \in Checking
  /\ \E err \in BOOLEAN : lpErr' = [lpErr EXCEPT ![g] = err]
  /\ lpPc' = [lpPc EXCEPT ![g] = "select"]
  /\ UNCHANGED <<NotLoopVars, running, cancelOf, lpCtx, lpTick>>

\* The ticker of a loop fires: ticker.C holds one tick, a tick that finds it
\* full is dropped.
TickerFires(g) ==
  /\ lpPc[g] \in {"select", "check"}
  /\ ~lpTick[g]
  /\ lpTick' = [lpTick EXCEPT ![g] = TRUE]
  /\ UNCHANGED <<NotLoopVars, running, cancelOf, lpPc, lpCtx, lpErr>>

\* The select of the loop takes the tick and calls checkAndUpdate.
ReceiveTick(g) ==
  /\ lpPc[g] = "select"
  /\ lpTick[g]
  /\ lpTick' = [lpTick EXCEPT ![g] = FALSE]
  /\ lpPc' = [lpPc EXCEPT ![g] = "check"]
  /\ UNCHANGED <<NotLoopVars, running, cancelOf, lpCtx, lpErr>>

\* The select of the loop takes ctx.Done(): Start returns nil.
LoopExits(g) ==
  /\ lpPc[g] = "select"
  /\ lpCtx[g]
  /\ lpPc' = [lpPc EXCEPT ![g] = "returned"]
  /\ lpTick' = [lpTick EXCEPT ![g] = FALSE]
  /\ UNCHANGED <<NotLoopVars, running, cancelOf, lpCtx, lpErr>>

\* GTFSScheduler.Stop on a running scheduler: s.cancel() and running = false;
\* it does not wait for the goroutine in Start. On a scheduler that is not
\* running it returns "scheduler not running".
SchedulerStop ==
  /\ running
  /\ lpCtx' = [lpCtx EXCEPT ![cancelOf] = TRUE]
  /\ running' = FALSE
  /\ UNCHANGED <<NotLoopVars, cancelOf, lpPc, lpTick, lpErr>>

\* main cancels the context every Start was called with.
CancelContext ==
  /\ \E g \in Loops : ~lpCtx[g]
  /\ lpCtx' = [g \in Loops |-> TRUE]
  /\ UNCHANGED <<NotLoopVars, running, cancelOf, lpPc, lpTick, lpErr>>

\* ------------------------------------------------ HTTPDownloader.Download

NotDownloadVars == <<storeVars, schedVars, txVars, gcVars, realtimeVars,
                     consumerVars, timeVars, loopVars, mainVars, lookupVars, laterVars>>

StatusCodes == {200, 404, 500}

\* Any status is taken for a success.
AnyStatus(st) == TRUE

\* resp.StatusCode != http.StatusOK returns an error.
StatusOK(st) == st = 200

\* Download returns an error: the deferred os.Remove(tempPath) removes the
\* temp file, if there is one.
DownloadFails ==
  /\ dlPc' = "returned"
  /\ dlErr' = TRUE
  /\ tempFile' = NoFile
  /\ UNCHANGED <<NotDownloadVars, destFile, bodyLen, statusCode>>

\* MkdirAll and os.CreateTemp: an error of either returns before a temp file
\* exists; else there is an empty temp file.
CreateTemp ==
  /\ dlPc \in {"idle", "returned"}
  /\ \/ DownloadFails
     \/ /\ dlPc' = "request"
        /\ tempFile' = 0
        /\ bodyLen' = 0
        /\ statusCode' = 0
        /\ dlErr' = FALSE
        /\ UNCHANGED <<NotDownloadVars, destFile>>

\* NewRequestWithContext and client.Do: an error, or a status that is not
\* 200, closes the temp file and returns; else the body is copied.
DoRequest ==
  /\ dlPc = "request"
  /\ \/ DownloadFails
     \/ \E st \in StatusCodes, n \in 1..MaxChunks :
          IF StatusOK(st)
          THEN /\ dlPc' = "copy"
               /\ statusCode' = st
               /\ bodyLen' = n
               /\ UNCHANGED <<NotDownloadVars, tempFile, destFile, dlErr>>
          ELSE /\ dlPc' = "returned"
               /\ dlErr' = TRUE
               /\ tempFile' = NoFile
               /\ statusCode' = st
               /\ bodyLen' = n
               /\ UNCHANGED <<NotDownloadVars, destFile>>

\* One round of copyWithProgress: Read or Write fails (the file is closed
\* and Download returns), a chunk is written, or Read reports io.EOF after
\* the last chunk (the file is closed).
copyWithProgress ==
  /\ dlPc = "copy"
  /\ \/ DownloadFails
     \/ /\ tempFile < bodyLen
        /\ tempFile' = tempFile + 1
        /\ UNCHANGED <<NotDownloadVars, dlPc, destFile, bodyLen, statusCode, dlErr>>
     \/ /\ tempFile = bodyLen
        /\ dlPc' = "rename"
        /\ UNCHANGED <<NotDownloadVars, tempFile, destFile, bodyLen, statusCode, dlErr>>

\* os.Rename(tempPath, destPath): on success the temp file is the file at
\* destPath and Download returns nil (the deferred Remove finds no file); on
\* an error destPath is as it was.
Rename ==
  /\ dlPc = "rename"
  /\ \/ DownloadFails
     \/ /\ destFile' = tempFile
        /\ tempFile' = NoFile
        /\ dlPc' = "returned"
        /\ dlErr' = FALSE
        /\ UNCHANGED <<NotDownloadVars, bodyLen, statusCode>>

\* --------------------------------------- Importer.Import, batchInserter

NotBatchVars == <<storeVars, schedVars, txVars, gcVars, realtimeVars, consumerVars,
                  timeVars, loopVars, downloadVars, mainVars, lookupVars, deleteVars,
                  taskVars, tripVars, startVars>>

\* newBatchInserter(tableName, fieldCount) as Import calls it.
fieldCount == [agency |-> 6, stops |-> 8, routes |-> 7, calendar |-> 11,
               calendar_dates |-> 5, shapes |-> 6, trips |-> 8,
               stop_times |-> 10, levels |-> 5, pathways |-> 8,
               transfers |-> 10]

\* The number of values the callback of a table passes to Add.
AddValues == [agency |-> 8, stops |-> 10, routes |-> 9, calendar |-> 12,
              calendar_dates |-> 5, shapes |-> 7, trips |-> 10,
              stop_times |-> 11, levels |-> 5, pathways |-> 8,
              transfers |-> 10]

\* Len(getColumnsForTable(tableName)).
Columns == [agency |-> 8, stops |-> 10, routes |-> 9, calendar |-> 12,
            calendar_dates |-> 5, shapes |-> 7, trips |-> 10,
            stop_times |-> 11, levels |-> 5, pathways |-> 8,
            transfers |-> 10]

\* buildInsertQuery with n buffered rows: the statement tx.Exec is given.
buildInsertQuery(t, n) ==
  [table |-> t, rows |-> n, perRow |-> fieldCount[t], args |-> n * AddValues[t],
   columns |-> Columns[t]]

\* tx.Exec accepts the statement: each VALUES list has as many expressions
\* as there are target columns, and there is one argument per placeholder.
ExecOk(q) == q.perRow = q.columns /\ q.rows * q.perRow = q.args

\* batchInserter.Flush of table t with n > 0 buffered rows: the INSERT, and
\* on success the reset of the buffer; on an error Import returns it and its
\* deferred Rollback undoes the transaction.
Flush(t, n) ==
  /\ biQuery' = buildInsertQuery(t, n)
  /\ IF ExecOk(buildInsertQuery(t, n))
     THEN /\ biStored' = [biStored EXCEPT ![t] = @ + n]
          /\ valueCount' = [valueCount EXCEPT ![t] = 0]
          /\ UNCHANGED biPc
     ELSE /\ biStored' = [u \in Tables |-> 0]
          /\ valueCount' = [valueCount EXCEPT ![t] = n]
          /\ biPc' = "failed"

\* parseStandardGTFS goes on to the next file of parseOrder (a file that is
\* not in the archive has no rows); after the last one ParseZip returns and
\* Import starts its final flush.
parseFile ==
  /\ biPc = "parse"
  /\ biLeft = 0
  /\ IF biFile < Len(parseOrder)
     THEN /\ biFile' = biFile + 1
          /\ \E n \in 0..MaxRows : biLeft' = n
          /\ UNCHANGED biPc
     ELSE /\ biPc' = "flush"
          /\ biFile' = 1
          /\ UNCHANGED biLeft
  /\ UNCHANGED <<NotBatchVars, valueCount, biStored, biQuery>>

\* The callback of a row of the file being parsed calls batchInserter.Add:
\* the row is buffered, and at batchSize rows the buffer is flushed.
Add ==
  /\ biPc = "parse"
  /\ biLeft > 0
  /\ biLeft' = biLeft - 1
  /\ LET t == parseOrder[biFile]
         n == valueCount[t] + 1
     IN IF n >= batchSize
        THEN Flush(t, n)
        ELSE /\ valueCount' = [valueCount EXCEPT ![t] = n]
             /\ UNCHANGED <<biPc, biStored, biQuery>>
  /\ UNCHANGED <<NotBatchVars, biFile>>

\* Import: "Flush all remaining batches", one batch inserter per step, then
\* tx.Commit().
FlushRemaining ==
  /\ biPc = "flush"
  /\ IF biFile > Len(batches)
     THEN /\ biPc' = "done"
          /\ UNCHANGED <<biFile, valueCount, biStored, biQuery>>
     ELSE /\ biFile' = biFile + 1
          /\ LET t == batches[biFile]
             IN IF valueCount[t] = 0
                THEN UNCHANGED <<biPc, valueCount, biStored, biQuery>>
                ELSE Flush(t, valueCount[t])
  /\ UNCHANGED <<NotBatchVars, biLeft>>

\* ------------------------- CleanupOldGTFSVersions, statement by statement

NotDeleteVars == <<storeVars, schedVars, txVars, gcVars, realtimeVars, consumerVars,
                   timeVars, loopVars, downloadVars, mainVars, lookupVars, batchVars,
                   taskVars, tripVars, startVars>>

\* The loop over versionsToDelete takes the next version and calls
\* deleteGTFSVersion.
deleteNextVersion ==
  /\ dvCur = NoVersion
  /\ dvTodo # <<>>
  /\ dvCur' = Head(dvTodo)
  /\ dvTodo' = Tail(dvTodo)
  /\ dvStep' = 1
  /\ UNCHANGED <<NotDeleteVars, dvRows, dvVersions, dvResults>>

\* The versions the loop still deletes after an error: none, the cleanup
\* returns.
AbortOnError(todo) == <<>>

\* The versions the loop still deletes after an error of deleteGTFSVersion:
\* the error is logged, a result with an ERROR status is appended, continue.
AfterError(todo) == todo

\* deleteGTFSVersion returns an error.
deleteFails ==
  /\ dvResults' = [dvResults EXCEPT ![dvCur] = "ERROR"]
  /\ dvTodo' = AfterError(dvTodo)
  /\ dvCur' = NoVersion
  /\ dvStep' = 0
  /\ UNCHANGED <<dvRows, dvVersions>>

\* DELETE FROM gtfs.<table> WHERE version_id = $1 for the next table, or its
\* error.
deleteFromTable ==
  /\ dvCur # NoVersion
  /\ dvStep <= Len(deleteTables)
  /\ \/ deleteFails
     \/ /\ dvRows' = [dvRows EXCEPT ![dvCur] = @ \ {deleteTables[dvStep]}]
        /\ dvStep' = dvStep + 1
        /\ UNCHANGED <<dvTodo, dvCur, dvVersions, dvResults>>
  /\ UNCHANGED NotDeleteVars

\* DELETE FROM gtfs.versions WHERE version_id = $1, or its error;
\* deleteGTFSVersion returns and a SUCCESS result is appended.
deleteVersionRecord ==
  /\ dvCur # NoVersion
  /\ dvStep > Len(deleteTables)
  /\ \/ deleteFails
     \/ /\ dvVersions' = dvVersions \ {dvCur}
        /\ dvResults' = [dvResults EXCEPT ![dvCur] = "SUCCESS"]
        /\ dvCur' = NoVersion
        /\ dvStep' = 0
        /\ UNCHANGED <<dvTodo, dvRows>>
  /\ UNCHANGED NotDeleteVars

\* ------------------------------------------------------------------ main

\* main receives a signal and calls cancel().
cancel ==
  /\ ~ctxDone
  /\ ctxDone' = TRUE
  /\ UNCHANGED <<storeVars, schedVars, txVars, gcVars, realtimeVars, consumerVars,
                 timeVars, loopVars, downloadVars, lookupVars, laterVars>>

\* ------------------------------------ the goroutines and main's shutdown

NotTaskVars == <<storeVars, schedVars, txVars, gcVars, realtimeVars, consumerVars,
                 timeVars, loopVars, downloadVars, mainVars, lookupVars, batchVars,
                 deleteVars, tripVars, startVars>>

\* Every loop but the drainer's has no case for ctx.Done().
ObservesExceptDrainer(t) == t # "drainer"

\* The loops whose select has a case <-ctx.Done() that returns.
ObservesCtx(t) == t \in Tasks

\* The select of a loop takes its ticker (the drainer: a result of feedChan)
\* and calls the work of the loop. A select with several ready cases takes
\* any of them, so this may happen after the context is cancelled.
taskWakes(t) ==
  /\ taskPc[t] = "select"
  /\ t = "drainer" => tkQueue > 0
  /\ taskPc' = [taskPc EXCEPT ![t] = "work"]
  /\ tkQueue' = IF t = "drainer" THEN tkQueue - 1 ELSE tkQueue
  /\ UNCHANGED <<NotTaskVars, dbClosed>>

\* The work of a loop returns (checkAndUpdate, fetchFeed, the refill,
\* processFeedMessage, performCleanup). The deferred select of fetchFeed
\* sends its result to feedChan, or drops it when the channel is full or the
\* context is cancelled.
taskWorkDone(t) ==
  /\ taskPc[t] = "work"
  /\ taskPc' = [taskPc EXCEPT ![t] = "select"]
  /\ \/ t \in Endpoints /\ tkQueue < FeedChanCap /\ tkQueue' = tkQueue + 1
     \/ (t \notin Endpoints \/ tkQueue = FeedChanCap \/ ctxDone) /\ tkQueue' = tkQueue
  /\ UNCHANGED <<NotTaskVars, dbClosed>>

\* The select of a loop takes ctx.Done() and the goroutine returns.
taskExits(t) ==
  /\ taskPc[t] = "select"
  /\ ctxDone
  /\ ObservesCtx(t)
  /\ taskPc' = [taskPc EXCEPT ![t] = "stopped"]
  /\ UNCHANGED <<NotTaskVars, tkQueue, dbClosed>>

\* main after cancel(): wg.Wait() returns once GTFSScheduler.Start has
\* returned (Manager.Start returned when it had started its goroutines), and
\* main returns: the deferred database.Close() runs.
mainReturns ==
  /\ ctxDone
  /\ taskPc["check_loop"] = "stopped"
  /\ ~dbClosed
  /\ dbClosed' = TRUE
  /\ UNCHANGED <<NotTaskVars, taskPc, tkQueue>>

\* ------------------------------------- Processor.processTripUpdatesBulk

NotTripVars == <<storeVars, schedVars, txVars, gcVars, realtimeVars, consumerVars,
                 timeVars, loopVars, downloadVars, mainVars, lookupVars, batchVars,
                 deleteVars, taskVars, startVars>>

\* The entities a decoded feed message can carry: the Id, the TripUpdate
\* (nil, present without Trip.TripId, or present with it) and its
\* StopTimeUpdate, each named by its (stop_sequence, stop_id). The decoder
\* does not compare the ids of the entities.
FeedEntity ==
  {e \in [id : {"x", "y"}, trip_update : {"nil", "no_trip_id", "trip"},
          stop_time_update : SUBSET (1..MaxStopKeys)] :
     e.trip_update = "nil" => e.stop_time_update = {}}

\* The rows of the message being processed.
OwnTripUpdates == {t \in trip_updates : t.feed_message_id = feedMessageID}

\* tx.Rollback(): the rows of the open transaction are gone.
RollbackTripUpdates ==
  /\ trip_updates' = trip_updates \ OwnTripUpdates
  /\ stop_time_updates' =
       {r \in stop_time_updates : r.feed_message_id # feedMessageID}
  /\ tuPc' = "idle"

\* processFeedMessage has inserted the feed_messages row and calls
\* processTripUpdatesBulk with the entities of the message.
processTripUpdatesBulk ==
  /\ tuPc = "idle"
  /\ feedMessageID < MaxTripFeeds
  /\ feedMessageID' = feedMessageID + 1
  /\ \E n \in 0..MaxEntities : \E m \in [1..n -> FeedEntity] : feedEntities' = m
  /\ tripUpdateMapping' = <<>>
  /\ tuPc' = "trips"
  /\ UNCHANGED <<NotTripVars, trip_updates, stop_time_updates, nextTripUpdateId>>

\* The first loop and its COPY: one trip_updates row for every entity with
\* a trip_id; UNIQUE(feed_message_id, entity_id) fails the COPY.
copyTripUpdates ==
  /\ tuPc = "trips"
  /\ LET kept == {i \in DOMAIN feedEntities : feedEntities[i].trip_update = "trip"}
         rank(i) == Cardinality({j \in kept : j < i})
     IN IF \E i, j \in kept : i # j /\ feedEntities[i].id = feedEntities[j].id
        THEN RollbackTripUpdates /\ UNCHANGED nextTripUpdateId
        ELSE /\ trip_updates' = trip_updates \cup
                  {[trip_update_id |-> nextTripUpdateId + rank(i),
                    feed_message_id |-> feedMessageID,
                    entity_id |-> feedEntities[i].id,
                    entity |-> i] : i \in kept}
             /\ nextTripUpdateId' = nextTripUpdateId + Cardinality(kept)
             /\ tuPc' = "mapping"
             /\ UNCHANGED stop_time_updates
  /\ UNCHANGED <<NotTripVars, feedMessageID, feedEntities, tripUpdateMapping>>

\* SELECT entity_id, trip_update_id ... WHERE feed_message_id = $1.
queryTripUpdateIds ==
  /\ tuPc = "mapping"
  /\ tripUpdateMapping' =
       [e \in {t.entity_id : t \in OwnTripUpdates} |->
          (CHOOSE t \in OwnTripUpdates : t.entity_id = e).trip_update_id]
  /\ tuPc' = "stops"
  /\ UNCHANGED <<NotTripVars, feedMessageID, feedEntities, trip_updates,
                 stop_time_updates, nextTripUpdateId>>

\* The second loop and its COPY, then the commit of processFeedMessage:
\* every entity with a TripUpdate whose id is in tripUpdateMapping gets its
\* stop-time updates inserted under the mapped trip_update_id;
\* UNIQUE(trip_update_id, stop_sequence, stop_id) fails the COPY.
copyStopTimeUpdates ==
  /\ tuPc = "stops"
  /\ LET rows == {[trip_update_id |-> tripUpdateMapping[feedEntities[i].id],
                   stop_key |-> k,
                   feed_message_id |-> feedMessageID,
                   entity |-> i,
                   skipped |-> feedEntities[i].trip_update # "trip"] :
                    i \in {j \in DOMAIN feedEntities :
                            /\ feedEntities[j].trip_update # "nil"
                            /\ feedEntities[j].id \in DOMAIN tripUpdateMapping},
                    k \in 1..MaxStopKeys}
         added == {r \in rows : r.stop_key \in feedEntities[r.entity].stop_time_update}
     IN IF \E r, q \in added : /\ r # q
                               /\ r.trip_update_id = q.trip_update_id
                               /\ r.stop_key = q.stop_key
        THEN RollbackTripUpdates
        ELSE /\ stop_time_updates' = stop_time_updates \cup added
             /\ tuPc' = "idle"
             /\ UNCHANGED trip_updates
  /\ UNCHANGED <<NotTripVars, feedMessageID, feedEntities, tripUpdateMapping,
                 nextTripUpdateId>>

\* ---------------------------------------- Consumer.Start, Consumer.Stop

NotStartVars == <<storeVars, schedVars, txVars, gcVars, realtimeVars, consumerVars,
                  timeVars, loopVars, downloadVars, mainVars, lookupVars, batchVars,
                  deleteVars, taskVars, tripVars>>

\* Closing a closed channel panics, and the process ends.
Panicked == stopChanCloses > 1

\* Consumer.Start on a consumer that is not running: isRunning is set and
\* one pollEndpoint goroutine per endpoint is started with ctx. On a running
\* consumer it returns "consumer is already running".
ConsumerStart ==
  /\ ~Panicked
  /\ ~isRunning
  /\ csStarts < MaxConsumerStarts
  /\ csStarts' = csStarts + 1
  /\ isRunning' = TRUE
  /\ pollPc' = [pollPc EXCEPT ![csStarts + 1] = [e \in Endpoints |-> "fetch"]]
  /\ UNCHANGED <<NotStartVars, stopChanCloses, csCtx>>

\* Consumer.Stop on a running consumer: isRunning is cleared and stopChan is
\* closed. On a consumer that is not running it returns.
ConsumerStop ==
  /\ ~Panicked
  /\ isRunning
  /\ isRunning' = FALSE
  /\ stopChanCloses' = stopChanCloses + 1
  /\ UNCHANGED <<NotStartVars, csStarts, csCtx, pollPc>>

\* The ctx a Start was called with is cancelled.
ConsumerCtxDone(g) ==
  /\ ~Panicked
  /\ g <= csStarts
  /\ ~csCtx[g]
  /\ csCtx' = [csCtx EXCEPT ![g] = TRUE]
  /\ UNCHANGED <<NotStartVars, isRunning, stopChanCloses, csStarts, pollPc>>

\* fetchFeed returns to pollEndpoint (the initial fetch, or the fetch of a
\* tick), which goes to its select.
pollFetched(g, e) ==
  /\ ~Panicked
  /\ pollPc[g][e] = "fetch"
  /\ pollPc' = [pollPc EXCEPT ![g][e] = "select"]
  /\ UNCHANGED <<NotStartVars, isRunning, stopChanCloses, csStarts, csCtx>>

\* The select of pollEndpoint takes ticker.C.
pollTick(g, e) ==
  /\ ~Panicked
  /\ pollPc[g][e] = "select"
  /\ pollPc' = [pollPc EXCEPT ![g][e] = "fetch"]
  /\ UNCHANGED <<NotStartVars, isRunning, stopChanCloses, csStarts, csCtx>>

\* The select of pollEndpoint takes ctx.Done() or the closed stopChan, and
\* the goroutine returns. stopChan is made once, in NewConsumer; Start does
\* not make a new one.
pollReturns(g, e) ==
  /\ ~Panicked
  /\ pollPc[g][e] = "select"
  /\ csCtx[g] \/ stopChanCloses > 0
  /\ pollPc' = [pollPc EXCEPT ![g][e] = "returned"]
  /\ UNCHANGED <<NotStartVars, isRunning, stopChanCloses, csStarts, csCtx>>

\* ------------------------------------------------------------------ Spec

SchedulerStep(p, A) ==
  \/ checkAndUpdate(p, A)
  \/ CreateNewVersionBegin(p)
  \/ CreateNewVersionInsert(p)
  \/ CreateNewVersionCommit(p)
  \/ Import(p)
  \/ ImportCommit(p)
  \/ ActivateVersionBegin(p)
  \/ ActivateVersionDeactivate(p)
  \/ ActivateVersionSet(p)
  \/ ActivateVersionCommit(p)
  \/ StepFails(p)

\* Two schedulers (two instances of the service on one store) and the version
\* cleanup, on single-source archives.
Next ==
  \/ \E p \in Schedulers : SchedulerStep(p, SingleSource)
  \/ performStaticCleanup
  \/ CleanupOldGTFSVersions

Spec == Init /\ [][Next]_vars

\* One scheduler (the service as main starts it) and the version cleanup, on
\* flat and two-source archives.
NextOne ==
  \/ SchedulerStep("s1", Archives)
  \/ performStaticCleanup
  \/ CleanupOldGTFSVersions

SpecOne == Init /\ [][NextOne]_vars

\* The realtime processor next to one static scheduler.
ProcessorStep ==
  \/ processFeedMessage
  \/ insertFeedMessage
  \/ processEntitiesBulk
  \/ processChildrenBulk
  \/ commitFeedMessage
  \/ ProcessorStepFails

NextAct ==
  \/ SchedulerStep("s1", SingleSource)
  \/ ProcessorStep

SpecAct == Init /\ [][NextAct]_vars

\* The realtime processor and the realtime retention, on a store where
\* version 1 has been imported and activated.
InitRT ==
  /\ vrows = {1}
  /\ isActive = {1}
  /\ updatedAt = [v \in VersionIds |-> IF v = 1 THEN 1 ELSE 0]
  /\ createdAt = [v \in VersionIds |-> IF v = 1 THEN 1 ELSE 0]
  /\ nextId = 2
  /\ entities = {<<1, 1>>}
  /\ InitSched /\ InitTx /\ InitGc /\ InitRealtime /\ InitConsumer /\ InitOther

NextRT ==
  \/ ProcessorStep
  \/ Tick
  \/ runCleanupJob
  \/ performCleanup
  \/ performRealtimeCleanup
  \/ CleanupOldRealtimeData
  \/ CleanupOldRealtimeDataBatched

SpecRT == InitRT /\ [][NextRT]_vars

\* The consumer: the pollers, the limiter's refill and the passing of time.
NextRL ==
  \/ \E e \in Endpoints : fetchFeed(e)
  \/ \E e \in Endpoints : fetchFeedGetsToken(e)
  \/ \E e \in Endpoints : fetchFeedGivesUp(e)
  \/ refreshRateLimiter
  \/ processFeedResults
  \/ Stop
  \/ Elapse

SpecRL == Init /\ [][NextRL]_vars

\* The consumer under the configurations of GTFSRealtimeConfig: the rate
\* limit is RateLimitPerMin or twice that, the polling interval
\* PollingInterval or two ticks more.
InitCfg ==
  /\ InitStore /\ InitSched /\ InitTx /\ InitGc /\ InitRealtime /\ InitOther
  /\ \E r \in {RateLimitPerMin, 2 * RateLimitPerMin},
        i \in {PollingInterval, PollingInterval + 2} : StartConsumer(r, i)

SpecCfg == InitCfg /\ [][NextRL]_vars

\* ---------------------------------------------------------------- claims

\* C1: at most one row of gtfs.versions has is_active = true, in every state,
\* whatever the interleaving of CreateNewVersion, ActivateVersion (also
\* concurrent and failing), the imports and the version cleanup.
AtMostOneActive == Cardinality(isActive) <= 1

\* C1 witness: two versions exist, a concurrent activation was refused by the
\* unique index and exactly one row is active.
ConcurrentActivationRefused ==
  /\ \E p \in Schedulers : outcome[p] = "unique_violation"
  /\ Cardinality(vrows) >= 2
  /\ Cardinality(isActive) = 1

\* C2: when checkAndUpdate fails after a newer version was detected, the
\* version that was active at detection is still the active one.
ImportPcs == FailablePcs \ {"avCommit"}

FailedImportKeepsActive ==
  [][\A p \in Schedulers :
       (pc[p] \in ImportPcs /\ pc'[p] = "idle" /\ activeAtDetect[p] # {})
         => isActive' = activeAtDetect[p]]_vars

\* C3: from the commit of CreateNewVersion to the commit of ActivateVersion
\* the version that was active before the import is still active:
\* CreateNewVersion changes is_active of no existing row.
AfterCreatePcs == {"importing", "impCommit", "activating", "avDeact", "avSet",
                   "avCommit"}

PreviousStaysActiveDuringImport ==
  \A p \in Schedulers :
    pc[p] \in AfterCreatePcs => activeAtDetect[p] \subseteq isActive

\* C4: the version cleanup is never deleting versions while a static import
\* is running (from the first per-source import until ActivateVersion
\* commits or checkAndUpdate returns).
NoCleanupDuringImport ==
  ~(/\ gcPc = "deleting"
    /\ gcTargets # {}
    /\ \E p \in Schedulers : pc[p] \in AfterCreatePcs)

\* C5: when the import of any source fails, no entity row carries the new
\* version id, the rows of the sources imported before it included.
FailedImportLeavesNoRows ==
  [][\A p \in Schedulers :
       (pc[p] \in {"importing", "impCommit"} /\ pc'[p] = "idle")
         => \A e \in entities' : e[1] # vid[p]]_vars

\* Every entity row references a feed message of the store and every child
\* row an entity row of the store.
NoOrphans ==
  \A r \in rtRows :
    IF Parent(r[1]) = "feed_messages" THEN r[2] \in MessageIds(feedMessages)
    ELSE <<Parent(r[1]), r[2]>> \in rtRows

\* C6: every realtime row's feed message exists, and the version_id of every
\* feed message is the version that was active when it was inserted (stated
\* for the messages whose version id came from the processor's cache and that
\* were inserted while a version was active).
MessageVersionIsActiveAtInsert ==
  /\ NoOrphans
  /\ \A m \in feedMessages :
       (m.cached /\ m.activeAtInsert # {}) => m.version \in m.activeAtInsert

\* C8: no row of a message whose processing failed after its transaction
\* began is in the store, the feed_messages header included.
FailedMessageLeavesNoRows ==
  \A id \in failedIds :
    /\ id \notin MessageIds(feedMessages)
    /\ \A r \in rtRows : r[2] # id

\* C8 witness: the processing of a message failed after its header was
\* inserted and processFeedMessage has returned.
MessageFailedAfterHeader ==
  /\ failedIds # {}
  /\ rtPc = "idle"

\* A retention run ends with every statement of it done.
RetentionCompletes == rcPc # "idle" /\ rcPc' = "idle" /\ rcOutcome' = "ok"

RetentionKeepsRecent ==
  [][(RetentionCompletes /\ (rcPc = "truncate" => rcDays >= 1)) =>
       \A m \in feedMessages :
         m.receivedAt >= now - RetentionWindow =>
           /\ m \in feedMessages'
           /\ \A r \in rtRows : r[2] = m.id => r \in rtRows']_vars

RECURSIVE SumTo(_, _)
SumTo(f, n) == IF n = 0 THEN 0 ELSE f[n] + SumTo(f, n - 1)

\* C7: the HTTP requests sent in any 60 seconds (the last RefillInterval
\* ticks, wherever the refill falls in them) are at most RateLimitPerMin.
RollingWindowWithinLimit ==
  SumTo(recentRequests, RefillInterval) <= RateLimitPerMin

\* ActivateVersion commits for scheduler p and checkAndUpdate returns nil.
ImportSucceeds(p) == pc[p] = "avCommit" /\ pc'[p] = "idle" /\ outcome'[p] = "ok"

\* C11: when the import of an archive succeeds, exactly one version is
\* active, it is the version created for the archive, its updated_at is the
\* archive's last_modified, and the version that was active before still
\* exists and is inactive.
SuccessfulImportState ==
  [][\A p \in Schedulers :
       ImportSucceeds(p) =>
         /\ isActive' = {vid[p]}
         /\ updatedAt'[vid[p]] = lm[p]
         /\ \A a \in activeAtDetect[p] : a \in vrows' /\ a \notin isActive']_vars

\* ActivateVersion of scheduler p is refused by the unique index.
ActivateRefused(p) ==
  pc[p] = "avSet" /\ pc'[p] = "idle" /\ outcome'[p] = "unique_violation"

\* C12: of two concurrent ActivateVersion calls the one that reaches its
\* UPDATE ... SET is_active = true later returns an error and leaves nothing
\* of its transaction behind, no two calls hold an uncommitted activation at
\* once, and after either outcome exactly one version is active.
ConcurrentActivateFailsCleanly ==
  [][\A p \in Schedulers :
       /\ ActivateRefused(p) =>
            /\ isActive' = isActive /\ vrows' = vrows
            /\ LockedBy(p)' = {}
            /\ Cardinality(isActive') = 1
       /\ ImportSucceeds(p) =>
            /\ isActive' = {vid[p]}
            /\ \A q \in Schedulers \ {p} : txOn[q] = NoVersion]_vars

\* C12 witness: both schedulers have returned from overlapping activations,
\* one with nil and the other refused, and one version is active.
LaterActivationFailed ==
  \E p, q \in Schedulers :
    /\ p # q
    /\ pc[p] = "idle" /\ pc[q] = "idle"
    /\ outcome[p] = "ok" /\ outcome[q] = "unique_violation"
    /\ Cardinality(isActive) = 1

\* ActivateVersion is called for scheduler s1 with an id of VersionIds, on a
\* store that holds version 1 only, active.
InitAV ==
  /\ vrows = {1}
  /\ isActive = {1}
  /\ updatedAt = [v \in VersionIds |-> IF v = 1 THEN 1 ELSE 0]
  /\ createdAt = [v \in VersionIds |-> IF v = 1 THEN 1 ELSE 0]
  /\ nextId = 2
  /\ entities = {<<1, 1>>}
  /\ pc = [p \in Schedulers |-> IF p = "s1" THEN "activating" ELSE "idle"]
  /\ lm = [p \in Schedulers |-> 0]
  /\ archive = [p \in Schedulers |-> <<>>]
  /\ zip = [p \in Schedulers |-> NoZip]
  /\ vid \in {[p \in Schedulers |-> IF p = "s1" THEN v ELSE NoVersion] :
                v \in VersionIds}
  /\ activeAtDetect = [p \in Schedulers |-> {}]
  /\ outcome = [p \in Schedulers |-> "none"]
  /\ InitTx /\ InitGc /\ InitRealtime /\ InitConsumer /\ InitOther

SpecAV == InitAV /\ [][NextOne]_vars

\* ActivateVersion of scheduler p returns "version %d not found".
ActivateNotFound(p) ==
  pc[p] = "avSet" /\ pc'[p] = "idle" /\ outcome'[p] = "not_found"

\* C13: ActivateVersion with an id that matches no row returns an error and
\* the rows that were active before the call are the active ones after it:
\* what its first UPDATE deactivated is not committed.
ActivateUnknownRejected ==
  [][\A p \in Schedulers :
       ActivateNotFound(p) =>
         /\ isActive' = isActive \cup txOff[p]
         /\ txOff[p] \subseteq isActive'
         /\ LockedBy(p)' = {}]_vars

\* C13 witness: ActivateVersion has returned not found after deactivating
\* version 1 in its transaction, and version 1 is active.
UnknownVersionRejected ==
  /\ outcome["s1"] = "not_found"
  /\ pc["s1"] = "idle"
  /\ isActive = {1}
  /\ 2 \notin vrows

\* A CHECK of scheduler p went on to the download, or returned "No new
\* version available".
CheckProceeds(p) == pc[p] = "idle" /\ pc'[p] = "creating"

CheckSkips(p) ==
  /\ pc[p] = "idle" /\ pc'[p] = "idle" /\ outcome'[p] = "noop"
  /\ <<outcome[p], lm[p]>> # <<outcome'[p], lm'[p]>>

\* C14: a CHECK whose reads succeed goes on to download and import exactly
\* when no version is active or last_modified is strictly after the active
\* version's updated_at; otherwise it creates no version row and leaves the
\* store as it is.
CheckProceedsIffNewer ==
  [][\A p \in Schedulers :
       /\ (CheckProceeds(p) \/ CheckSkips(p)) =>
            (CheckProceeds(p) <=>
               (isActive = {} \/ \E a \in isActive : lm'[p] > updatedAt[a]))
       /\ CheckSkips(p) =>
            /\ UNCHANGED <<storeVars, txVars>>
            /\ nextId' = nextId]_vars

\* C14 witness: a CHECK has returned without an import on a last_modified
\* equal to the active version's updated_at.
CheckSkippedOnEqual ==
  \E p \in Schedulers :
    /\ pc[p] = "idle" /\ outcome[p] = "noop"
    /\ \E a \in isActive : lm[p] = updatedAt[a]

\* The cleanup scheduler next to one static scheduler and a caller of
\* LockForImport and UnlockAfterImport.
NextLock ==
  \/ SchedulerStep("s1", SingleSource)
  \/ LockForImport
  \/ UnlockAfterImport
  \/ performStaticCleanup
  \/ CleanupOldGTFSVersions
  \/ performRealtimeCleanup
  \/ CleanupOldRealtimeDataBatched

SpecLock == Init /\ [][NextLock]_vars

\* C15: no cleanup cycle waits for the import lock: a cycle that starts while
\* LockForImport holds the lock returns at once, skipped, and is never left
\* blocked until UnlockAfterImport.
CleanupNeverWaitsForImport == gcPc # "waiting" /\ rcPc # "waiting"

\* fetchFeed returns for endpoint e in this step, from its start or from its
\* wait for a token.
FetchCompletes(e) ==
  \/ pollIn[e] = 0 /\ e \notin waiting /\ pollIn'[e] # 0 /\ e \notin waiting'
  \/ e \in waiting /\ e \notin waiting'

\* C16: a fetch that finds the endpoint's cache entry younger than
\* CacheExpiration returns the cached message, takes no token and sends no
\* HTTP request.
FreshCacheFetchIsFree ==
  [][\A e \in Endpoints :
       (FetchCompletes(e) /\ FreshCache(e) /\ ~stopped) =>
         /\ lastResult'.msg = cacheMsg[e] /\ ~lastResult'.err
         /\ tokens' = tokens
         /\ recentRequests' = recentRequests]_vars

\* C17: on every HTTP 304 the FeedResult carries the message of the
\* endpoint's last decoded HTTP 200 and no error if there was one, and an
\* error and no message otherwise.
NotModifiedReturnsCached ==
  [][\A e \in Endpoints :
       (FetchCompletes(e) /\ lastResult'.how = "304") =>
         /\ lastResult'.endpoint = e
         /\ IF lastOk[e] # NoMessage
            THEN lastResult'.msg = lastOk[e] /\ ~lastResult'.err
            ELSE lastResult'.msg = NoMessage /\ lastResult'.err]_vars

\* C17 witness: a 304 was answered with the cached message.
NotModifiedServedFromCache ==
  /\ lastResult.how = "304"
  /\ lastResult.msg # NoMessage
  /\ lastResult.msg = lastOk[lastResult.endpoint]

\* C18 as stated: every fetch puts its FeedResult into feedChan, or drops it
\* when (and only when) the channel is full.
FetchEmitsOrDropsOnFull ==
  [][\A e \in Endpoints :
       FetchCompletes(e) =>
         IF lastResult'.sent THEN chanLen' = chanLen + 1
         ELSE chanLen' = chanLen /\ chanLen = FeedChanCap]_vars

\* C18: every fetch returns with its FeedResult put into feedChan, or dropped
\* when the channel is full or the consumer is stopping; the channel never
\* holds more than its capacity and the poller's ticker stays armed.
FetchEmitsOrDrops ==
  [][\A e \in Endpoints :
       FetchCompletes(e) =>
         /\ lastResult'.endpoint = e
         /\ IF lastResult'.sent
            THEN chanLen' = chanLen + 1 /\ chanLen' <= FeedChanCap
            ELSE chanLen' = chanLen /\ (chanLen = FeedChanCap \/ stopped)
         /\ pollIn'[e] > 0]_vars

\* C18 witness: on the running consumer a result was dropped on the full
\* channel.
ResultDroppedOnFull ==
  /\ lastResult.how # "none"
  /\ ~lastResult.sent
  /\ ~stopped
  /\ chanLen = FeedChanCap

\* C19: a fetch that fails, for whichever reason, returns a FeedResult with
\* the error and no message, and on the running consumer the endpoint's
\* ticker is armed for the next fetch.
FailedFetchKeepsPolling ==
  [][\A e \in Endpoints :
       (FetchCompletes(e) /\ lastResult'.err) =>
         /\ lastResult'.endpoint = e
         /\ lastResult'.msg = NoMessage
         /\ lastResult'.how \in
              (Responses \ {"200"}) \cup {"rate_limit", "stopped"}
         /\ ~stopped => (pollIn'[e] > 0 /\ pollIn'[e] <= pollEvery)]_vars

\* C19 witness: a fetch failed on the rate limit while the endpoint has a
\* cached message, and its poller waits for the next tick.
RateLimitedFetchFailed ==
  /\ lastResult.how = "rate_limit"
  /\ lastResult.err
  /\ ~stopped
  /\ \E e \in Endpoints :
       lastResult.endpoint = e /\ pollIn[e] > 0 /\ cacheMsg[e] # NoMessage

\* The most fetches one endpoint starts in 60 seconds, and whether those of
\* all endpoints are within the rate limit.
PollsPerWindow == (RefillInterval + pollEvery - 1) \div pollEvery

WithinRateLimit == Cardinality(Endpoints) * PollsPerWindow <= capTokens

NextDrain ==
  \/ skipFeedResult
  \/ ProcessorStep
  \/ Tick

SpecDrain == InitRT /\ [][NextDrain]_vars

\* processFeedMessage returns an error after its transaction began; the
\* drainer skips a result.
MessageFails == rtPc # "idle" /\ rtPc' = "idle" /\ rtLast' = "failed"

ResultSkipped ==
  /\ rtPc = "idle" /\ rtPc' = "idle"
  /\ rtLast' \in {"error", "nil_message"} /\ rtLast' # rtLast

\* C21: when the processing of a message fails, nothing of its transaction
\* reaches the store, the committed rows stay as they are and the drainer is
\* back at its receive; a result with an error or without a message starts
\* no transaction and writes nothing, and only results with a message are
\* processed.
FailureAbortsOneMessage ==
  [][/\ MessageFails =>
          /\ feedMessages' = feedMessages /\ rtRows' = rtRows
          /\ rtTxMsg' = {} /\ rtTxRows' = {}
          /\ UNCHANGED storeVars
     /\ ResultSkipped =>
          /\ UNCHANGED <<storeVars, rtStoreVars, versionMapping>>
          /\ rtTxMsg' = {} /\ rtTxRows' = {}
     /\ rtPc' # "idle" => rtResult' = "message"]_vars

\* C21 witness: after a message whose processing failed the drainer is
\* processing the next one.
NextMessageAfterFailure ==
  /\ rtLast = "failed"
  /\ rtPc = "entities"
  /\ rtResult = "message"

\* Both conversions on every time string of TimeStrings.
InitTimes ==
  /\ InitStore /\ InitSched /\ InitTx /\ InitGc /\ InitRealtime /\ InitConsumer
  /\ tmIn \in TimeStrings
  /\ tmRt = NotParsed
  /\ tmStatic = NotParsed
  /\ InitLoop
  /\ InitDownload
  /\ InitMain
  /\ InitLookup
  /\ InitLater

NextTime ==
  \/ parseStartTime
  \/ OnStopTime

SpecTime == InitTimes /\ [][NextTime]_vars

\* C22: a time string with hours of 24 or more is stored as
\* hours*3600 + minutes*60 + seconds, as start_time on the realtime insert
\* path and as arrival_time on the static import path.
LateTimesNotClamped ==
  tmIn[1] >= 24 =>
    /\ tmRt # NotParsed => tmRt = tmIn[1] * 3600 + tmIn[2] * 60 + tmIn[3]
    /\ tmStatic # NotParsed => tmStatic = tmIn[1] * 3600 + tmIn[2] * 60 + tmIn[3]

\* The entity rows of version v.
RowsOf(rows, v) == {e \in rows : e[1] = v}

\* C23: when a CHECK has imported and activated an archive, the version's
\* entity rows are those of every inner archive under its source id if the
\* archive is nested, and rows under one source if it is flat.
ArchiveSourcesImported ==
  [][\A p \in Schedulers :
       ImportSucceeds(p) =>
         IF zip[p].inner # <<>>
         THEN RowsOf(entities', vid[p]) =
                {<<vid[p], zip[p].inner[i]>> : i \in DOMAIN zip[p].inner}
         ELSE zip[p].root =>
                /\ RowsOf(entities', vid[p]) # {}
                /\ \A e, f \in RowsOf(entities', vid[p]) : e[2] = f[2]]_vars

\* C24: when a CHECK on an archive without recognized files succeeds, the
\* version row exists, no entity row carries its id, and it is the active
\* version.
EmptyArchiveActivated ==
  [][\A p \in Schedulers :
       (ImportSucceeds(p) /\ zip[p] = [root |-> FALSE, inner |-> <<>>]) =>
         /\ vid[p] \in vrows'
         /\ RowsOf(entities', vid[p]) = {}
         /\ isActive' = {vid[p]}]_vars

\* C24 witness: the CHECK on an archive without recognized files has created
\* its version, imported nothing, set the version active in ActivateVersion
\* and is at the commit.
EmptyVersionActive ==
  /\ pc["s1"] = "avCommit"
  /\ zip["s1"] = [root |-> FALSE, inner |-> <<>>]
  /\ txOn["s1"] = vid["s1"]
  /\ vid["s1"] \in vrows
  /\ RowsOf(entities, vid["s1"]) = {}

\* C25: the versions a cleanup run selects are inactive and older than the
\* KeepInactiveVersions newest inactive versions, it deletes none but those
\* it selected, and no version is active when the cleanup deletes it.
CleanupDeletesOnlyOldInactive ==
  [][/\ (gcPc # "deleting" /\ gcPc' = "deleting") =>
          \A v \in gcTargets' :
            /\ v \in vrows /\ v \notin isActive
            /\ Cardinality(NewerInactive(v)) >= KeepInactiveVersions
     /\ \A v \in vrows \ vrows' : v \in gcTargets /\ v \notin isActive]_vars

\* One static scheduler, the realtime processor and the version cleanup.
NextGc ==
  \/ SchedulerStep("s1", SingleSource)
  \/ ProcessorStep
  \/ performStaticCleanup
  \/ CleanupOldGTFSVersions

SpecGc == Init /\ [][NextGc]_vars

\* C26: when the cleanup fails to delete a version it selected (its row of
\* gtfs.versions is still there), none of that version's entity rows has
\* been removed.
VersionDeleteAllOrNothing ==
  [][(gcPc = "deleting" /\ gcPc' = "idle") =>
       \A v \in gcTargets \cap vrows' :
         RowsOf(entities', v) = RowsOf(entities, v)]_vars

\* The loop of GTFSScheduler.Start, with Stop and the cancelling of the
\* context.
NextLoop ==
  \/ SchedulerStart
  \/ SchedulerStop
  \/ CancelContext
  \/ \E g \in Loops : CheckReturns(g)
  \/ \E g \in Loops : TickerFires(g)
  \/ \E g \in Loops : ReceiveTick(g)
  \/ \E g \in Loops : LoopExits(g)

SpecLoop == Init /\ [][NextLoop]_vars

\* C27: a started scheduler goes into a CHECK at once, every further CHECK
\* takes one tick of the ticker, a CHECK that returns (with an error or
\* without) leaves the loop at its select, and no two CHECKs of the scheduler
\* run at the same time.
ChecksRunOneAtATime ==
  [][/\ (~running /\ running') => lpPc'[cancelOf'] = "initial"
     /\ \A g \in Loops :
          /\ (lpPc[g] = "select" /\ lpPc'[g] = "check") =>
               (lpTick[g] /\ ~lpTick'[g])
          /\ (g \in Checking /\ lpPc'[g] # lpPc[g]) => lpPc'[g] = "select"
     /\ Cardinality(Checking') <= 1]_vars

\* Downloads to one destination path, one after the other.
NextDownload ==
  \/ CreateTemp
  \/ DoRequest
  \/ copyWithProgress
  \/ Rename

SpecDownload == Init /\ [][NextDownload]_vars

\* C28: the file at the destination path changes only by the rename of a
\* temp file that holds the whole body of a response with status 200, and a
\* Download that returns an error leaves the destination as it was and no
\* temp file.
DestinationOnlyByRename ==
  [][/\ destFile' # destFile =>
          /\ dlPc = "rename"
          /\ statusCode = 200
          /\ tempFile = bodyLen
          /\ destFile' = bodyLen
          /\ dlPc' = "returned" /\ ~dlErr'
     /\ (dlPc # "returned" /\ dlPc' = "returned" /\ dlErr') =>
          (destFile' = destFile /\ tempFile' = NoFile)
     /\ (dlPc' = "returned" /\ ~dlErr') => tempFile' = NoFile]_vars

\* C28 witness: a download replaced an older file at the destination, and a
\* later download failed while it copied the body.
FailedDownloadKeptFile ==
  /\ dlPc = "returned" /\ dlErr
  /\ statusCode = 200
  /\ bodyLen = 3
  /\ destFile = 2
  /\ tempFile = NoFile

\* A step of checkAndUpdate under a cancelled context: FetchMetadata,
\* BeginTx(ctx), a statement or the Commit of a transaction begun with ctx,
\* and ParseZip return the error of the context.
CancelledStep(p, A) ==
  \/ checkAndUpdate(p, A) /\ outcome'[p] = "failed"
  \/ StepFails(p)

\* The scheduler and the realtime processor as main runs them, and the
\* cancelling of their context. processFeedMessage begins its transaction
\* with context.Background() and its statements take no context.
NextShutdown ==
  \/ cancel
  \/ ~ctxDone /\ SchedulerStep("s1", Archives)
  \/ ctxDone /\ CancelledStep("s1", Archives)
  \/ ProcessorStep

SpecShutdown == Init /\ [][NextShutdown]_vars

\* C29: once the context is cancelled no transaction commits, neither of
\* the import (version rows, entity rows, activation) nor of a realtime
\* message: what was in flight is rolled back and a version whose import was
\* interrupted is not activated.
CancelledNothingCommits ==
  [][ctxDone =>
       /\ vrows' = vrows /\ entities' = entities /\ isActive' = isActive
       /\ feedMessages' = feedMessages /\ rtRows' = rtRows]_vars

\* The realtime processor next to one static scheduler whose imports run
\* without an error of the store: versions are created and activated while
\* messages are processed.
NextCache ==
  \/ checkAndUpdate("s1", SingleSource)
  \/ CreateNewVersionBegin("s1")
  \/ CreateNewVersionInsert("s1")
  \/ CreateNewVersionCommit("s1")
  \/ Import("s1")
  \/ ImportCommit("s1")
  \/ ActivateVersionBegin("s1")
  \/ ActivateVersionDeactivate("s1")
  \/ ActivateVersionSet("s1")
  \/ ActivateVersionCommit("s1")
  \/ ProcessorStep

SpecCache == Init /\ [][NextCache]_vars

NextBatch ==
  \/ parseFile
  \/ Add
  \/ FlushRemaining

SpecBatch == Init /\ [][NextBatch]_vars

\* The place of a table in parseOrder.
OrderOf(t) == CHOOSE i \in 1..Len(parseOrder) : parseOrder[i] = t

\* C31: the files are parsed in the order of parseOrder, and when an INSERT
\* into a table has been executed every row of the tables before it in that
\* order has been inserted: none of them is still buffered.
InsertsFollowParseOrder ==
  /\ biPc = "parse" /\ biLeft > 0 =>
       \A t \in Tables : OrderOf(t) > biFile => valueCount[t] = 0 /\ biStored[t] = 0
  /\ biQuery # NoQuery =>
       \A u \in Tables : OrderOf(u) < OrderOf(biQuery.table) => valueCount[u] = 0

\* C32: a buffer never holds batchSize rows after an Add, an INSERT has as
\* many placeholders per row as Add was given values and as the table has
\* target columns, and after a Flush the buffer is empty.
BatchInsertWellFormed ==
  /\ biPc # "failed" => \A t \in Tables : valueCount[t] < batchSize
  /\ biQuery # NoQuery =>
       /\ biQuery.perRow * biQuery.rows = biQuery.args
       /\ biQuery.perRow = biQuery.columns

\* One run of the loop of CleanupOldGTFSVersions over the selected versions.
NextDelete ==
  \/ deleteNextVersion
  \/ deleteFromTable
  \/ deleteVersionRecord

SpecDelete == Init /\ [][NextDelete]_vars

\* C33: the rows of a version are deleted table by table, stop_times first,
\* then trips, then shapes, calendar_dates, calendar, transfers, pathways,
\* levels, stops, routes and agency, and its row of gtfs.versions is deleted
\* only when no entity table holds a row of it.
DeletedInDependencyOrder ==
  [][\A v \in VersionIds :
       /\ \A t \in dvRows[v] \ dvRows'[v] :
            /\ t # "stop_times" => "stop_times" \notin dvRows[v]
            /\ t \notin {"stop_times", "trips"} => "trips" \notin dvRows[v]
            /\ \A i, j \in 1..Len(deleteTables) :
                 (i < j /\ deleteTables[j] = t) => deleteTables[i] \notin dvRows[v]
       /\ (v \in dvVersions /\ v \notin dvVersions') => dvRows[v] = {}]_vars

\* C33 witness: a version that had rows in every entity table is deleted.
VersionDeletedLast ==
  \E v \in VersionIds :
    v \notin dvVersions /\ dvRows[v] = {} /\ dvResults[v] = "SUCCESS"

\* C34: an error of deleteGTFSVersion is recorded in the result of that
\* version and changes nothing else, the versions still to come stay
\* selected, and when the loop has ended every selected version has been
\* attempted.
FailedDeleteDoesNotBlock ==
  [][/\ (dvCur # NoVersion /\ dvResults'[dvCur] = "ERROR") =>
          /\ dvTodo' = dvTodo
          /\ \A v \in VersionIds \ {dvCur} : dvResults'[v] = dvResults[v]
          /\ dvRows' = dvRows /\ dvVersions' = dvVersions
     /\ (dvCur' = NoVersion /\ dvTodo' = <<>>) =>
          \A v \in VersionIds : dvResults'[v] # "none"]_vars

\* C34 witness: the first version of the cycle failed and the next one was
\* deleted.
LaterVersionDeleted ==
  /\ dvResults[MaxVersions] = "ERROR"
  /\ MaxVersions \in dvVersions
  /\ dvResults[1] = "SUCCESS"
  /\ 1 \notin dvVersions

\* The goroutines of the service, the cancelling of their context and the
\* return of main.
NextTasks ==
  \/ cancel
  \/ mainReturns
  \/ \E t \in Tasks : taskWakes(t)
  \/ \E t \in Tasks : taskWorkDone(t)
  \/ \E t \in Tasks : taskExits(t)

SpecTasks == Init /\ [][NextTasks]_vars

\* The same under the scheduling of the runtime: the work of a loop returns,
\* and a select that finds ctx.Done() ready again and again takes it.
SpecTasksFair ==
  /\ SpecTasks
  /\ \A t \in Tasks : WF_vars(taskWorkDone(t)) /\ SF_vars(taskExits(t))

\* C35: once the context is cancelled, the CHECK loop, every endpoint
\* poller, the refill ticker, the processor's drainer and the cleanup loop
\* eventually have all stopped.
CancelledTasksStop == ctxDone ~> \A t \in Tasks : taskPc[t] = "stopped"

\* C35 witness: every loop has stopped after the cancellation, the drainer
\* with a result still queued.
EveryTaskStopped ==
  /\ ctxDone
  /\ tkQueue > 0
  /\ \A t \in Tasks : taskPc[t] = "stopped"

\* C36: the drainer stops only when the pollers have stopped and feedChan is
\* empty, and the database is closed only when every goroutine has stopped.
ShutdownInOrder ==
  /\ taskPc["drainer"] = "stopped" =>
       /\ \A e \in Endpoints : taskPc[e] = "stopped"
       /\ tkQueue = 0
  /\ dbClosed => \A t \in Tasks : taskPc[t] = "stopped"

\* C37: while a scheduler is between CreateNewVersion and the end of
\* ActivateVersion, the version cleanup deletes neither the version it
\* imports into nor the version that was active when it began.
ImportVersionsSurviveCleanup ==
  [][\A p \in Schedulers :
       (pc[p] \in AfterCreatePcs /\ gcPc = "deleting") =>
         \A v \in vrows \ vrows' : v # vid[p] /\ v \notin activeAtDetect[p]]_vars

NextTrips ==
  \/ processTripUpdatesBulk
  \/ copyTripUpdates
  \/ queryTripUpdateIds
  \/ copyStopTimeUpdates

SpecTrips == Init /\ [][NextTrips]_vars

\* C38: every stop_time_updates row references the trip_updates row of its
\* own feed message that was created from the entity carrying the stop-time
\* update, and an entity skipped for lack of a trip_id has no
\* stop_time_updates rows.
StopTimeUpdatesOfOwnEntity ==
  \A r \in stop_time_updates :
    /\ ~r.skipped
    /\ \E t \in trip_updates : /\ t.trip_update_id = r.trip_update_id
                               /\ t.feed_message_id = r.feed_message_id
                               /\ t.entity = r.entity

\* C39: the running flag of the scheduler is set only while the loop of its
\* latest Start is executing; once that loop has returned the flag is clear.
RunningOnlyWhileLooping ==
  running => lpPc[cancelOf] \in {"initial", "check", "select"}

NextStart ==
  \/ ConsumerStart
  \/ ConsumerStop
  \/ \E g \in Starts : ConsumerCtxDone(g)
  \/ \E g \in Starts, e \in Endpoints : pollFetched(g, e)
  \/ \E g \in Starts, e \in Endpoints : pollTick(g, e)
  \/ \E g \in Starts, e \in Endpoints : pollReturns(g, e)

SpecStart == Init /\ [][NextStart]_vars

\* C40: whatever the sequence of Start and Stop, stopChan is closed at most
\* once, and while the latest call was an accepted Start and its ctx is not
\* cancelled, every endpoint has a pollEndpoint goroutine of that Start in
\* its loop.
StopChanClosedOnceAndPolling ==
  /\ stopChanCloses <= 1
  /\ (isRunning /\ ~csCtx[csStarts]) =>
       \A e \in Endpoints : pollPc[csStarts][e] \in {"fetch", "select"}

====
